---- MODULE Spec2Model ----
(***************************************************************************)
(* Model of the f1-stats aggregation-and-broadcast proxy:                  *)
(*   proxy/server.js       native (SignalR) client, store merge, SSE hub,  *)
(*                         replay simulator                                *)
(*   proxy/live-polling.js REST poller and the F1DashClient relay          *)
(*   proxy/mqtt-client.js  authenticated pub/sub client                    *)
(***************************************************************************)
EXTENDS Integers, Sequences, FiniteSets, TLC

(***************************************************************************)
(* JSON values.  Every value is a record [t, s, kids]: t is the JavaScript *)
(* type, s the text of a scalar, kids the own enumerable properties of an  *)
(* object or an array (an array's kids are keyed "0", "1", ...).           *)
(***************************************************************************)
NoKids == <<>>

Num(s) == [t |-> "num", s |-> s, kids |-> NoKids]

Str(s) == [t |-> "str", s |-> s, kids |-> NoKids]

Null == [t |-> "null", s |-> "", kids |-> NoKids]

Obj(f) == [t |-> "obj", s |-> "", kids |-> f]

Arr(f) == [t |-> "arr", s |-> "", kids |-> f]

Arr1(a) == Arr("0" :> a)

Arr2(a, b) == Arr(("0" :> a) @@ ("1" :> b))

\* typeof v === "object" && v !== null && !Array.isArray(v)
IsPlainObject(v) == v.t = "obj"

\* v instanceof Object
InstanceOfObject(v) == v.t \in {"obj", "arr"}

\* !v : the falsy values of JavaScript
Falsy(v) ==
    \/ v.t = "null"
    \/ v.t = "num" /\ v.s = "0"
    \/ v.t = "str" /\ v.s = ""
    \/ v.t = "bool" /\ v.s = "false"

\* { ...v } : the own enumerable properties of v; a string spreads into its
\* characters (the strings of the model have at most one character)
Spread(v) ==
    IF v.t \in {"obj", "arr"} THEN v.kids
    ELSE IF v.t = "str" /\ v.s # "" THEN "0" :> v
    ELSE NoKids

\* the marker of a raised TypeError
Throw == [t |-> "throw", s |-> "TypeError", kids |-> NoKids]

(***************************************************************************)
(* server.js deepMerge(target, source).  `key in target` raises a          *)
(* TypeError when target is a primitive; the operand is evaluated only     *)
(* when source[key] instanceof Object.  The recursive call always gets an  *)
(* object target, so only the outermost call can raise.                    *)
(***************************************************************************)
\* deepMerge without the `{ ...target }` copy: the source replaces the target
deepMergeReplacing(target, source) == source

RECURSIVE deepMerge(_, _)
deepMerge(target, source) ==
    LET result == Spread(target)
        keys == DOMAIN source.kids
    IN  IF /\ ~InstanceOfObject(target)
           /\ \E key \in keys : InstanceOfObject(source.kids[key])
        THEN Throw
        ELSE Obj([key \in (DOMAIN result) \cup keys |->
                    IF key \in keys
                    THEN IF /\ InstanceOfObject(source.kids[key])
                            /\ key \in DOMAIN target.kids
                            /\ InstanceOfObject(target.kids[key])
                         THEN deepMerge(target.kids[key], source.kids[key])
                         ELSE source.kids[key]
                    ELSE result[key]])

(***************************************************************************)
(* live-polling.js F1DashClient.deepMerge(target, source): merges in       *)
(* place; the value returned here is target after the call.  An array      *)
(* target keeps its type and receives the properties.                      *)
(***************************************************************************)
RECURSIVE dashDeepMerge(_, _)
dashDeepMerge(target, source) ==
    LET keys == DOMAIN source.kids
        sub(key) ==
            IF \/ key \notin DOMAIN target.kids
               \/ Falsy(target.kids[key])
               \/ ~InstanceOfObject(target.kids[key])
            THEN Obj(NoKids)
            ELSE target.kids[key]
    IN  [target EXCEPT !.kids =
            [key \in (DOMAIN target.kids) \cup keys |->
                IF key \in keys
                THEN IF IsPlainObject(source.kids[key])
                     THEN dashDeepMerge(sub(key), source.kids[key])
                     ELSE source.kids[key]
                ELSE target.kids[key]]]

(***************************************************************************)
(* State.                                                                  *)
(***************************************************************************)
VARIABLES
    mode,          \* the adapter that is active (one at a time)
    currentState,  \* server.js `currentState`: the unified store, key -> value
    sseClients,    \* server.js `sseClients`: the Set, in insertion order
    conn,          \* per subscriber: the state of its transport
    sent,          \* per subscriber: the frames written to its response
    rawState,      \* F1DashClient.rawState
    replayStarted,   \* server.js (replay) `replayStarted`
    driverBestLaps,  \* server.js (replay) `driverBestLaps`: number -> best lap
    currentSessionKey, \* live-polling.js `currentSessionKey` is set
    isRunning,       \* live-polling.js `isRunning`
    mqttIsRunning,   \* mqtt-client.js `isRunning`
    driverData,      \* mqtt-client.js `driverData`: number -> scratch record
    ws,            \* server.js connectToF1: where its socket stands
    stopped,       \* the adapter's stop has returned, no start called since
    request,       \* F1DashClient: where its request stands
    reconnectAttempts, \* F1DashClient.reconnectAttempts
    disconnected,  \* F1DashClient: how often it has emitted "disconnected"
    buffer,        \* F1DashClient.buffer: the text not yet split into events
    sockets,       \* the upstream sockets of the relay that are open
    mqttClient,    \* mqtt-client.js `client`: where its connection stands
    accessToken,   \* mqtt-client.js `accessToken`: the cached token
    tokenExpiry,   \* mqtt-client.js `tokenExpiry`, in seconds
    now,           \* Date.now(), in seconds
    storeId,       \* which object the binding `currentState` names
    pollInterval,  \* live-polling.js `pollInterval`: the timer it names
    replayInterval, \* server.js `replayInterval`: the timer it names
    pending,       \* the event loop: timers set and requests awaited
    realElapsed,   \* replay: Date.now() - replayStartRealTime, in seconds
    lastPollTime,  \* replay: `lastPollTime`, in seconds after raceStartTime
    inFlight,      \* replay: the windows whose fetch has not resolved
    windows,       \* replay: the windows fetched so far, in the order asked
    upstream,      \* the feed: what it has published so far
    nMsgs,         \* upstream messages handled so far
    nMerged,       \* updates merged into the store and broadcast so far
    lastOp         \* the last handler that ran: its input, the state before it

storeVars == <<currentState, rawState>>

hubVars == <<sseClients, conn, sent>>

adapterVars ==
    <<replayStarted, driverBestLaps, currentSessionKey, isRunning,
      mqttIsRunning, driverData>>

clockVars == <<realElapsed, lastPollTime, inFlight, windows>>

tokenVars == <<accessToken, tokenExpiry, now>>

lifeVars ==
    <<ws, stopped, request, reconnectAttempts, disconnected, buffer, sockets,
      mqttClient, tokenVars, storeId, pollInterval, replayInterval, pending, clockVars>>

vars ==
    <<mode, currentState, sseClients, conn, sent, rawState, replayStarted,
      driverBestLaps, currentSessionKey, isRunning, mqttIsRunning, driverData,
      ws, stopped, request, reconnectAttempts, disconnected, buffer, sockets,
      mqttClient, accessToken, tokenExpiry, now, storeId, pollInterval, replayInterval, pending, realElapsed, lastPollTime, inFlight, windows, upstream,
      nMsgs, nMerged, lastOp>>

Clients == {"c1", "c2", "c3"}

NoOp == [op |-> "none"]

\* the feed before it has published anything
NoFeed == [rc |-> 0, radio |-> 0, rcAgain |-> 0, radioAgain |-> 0]

\* the value of currentState after `currentState = {}` / at module load
EmptyStore == NoKids

(***************************************************************************)
(* Broadcast hub (server.js).                                              *)
(***************************************************************************)
\* client.write(message): raises when the transport is already closed
WriteThrows(connOf, c) == connOf[c] = "broken"

\* server.js broadcastSSE(event, data): sseClients.forEach with the write in a
\* try/catch that deletes the client.  hub is [clients, sent, threw]; threw
\* tells whether the call raised to its caller.
RECURSIVE broadcastFromPrepending(_, _, _, _)
broadcastFromPrepending(hub, connOf, order, frame) ==
    IF order = <<>> THEN hub
    ELSE LET c == Head(order)
             next ==
                 IF connOf[c] = "broken"
                 THEN [hub EXCEPT !.clients = SelectSeq(@, LAMBDA d : d # c)]
                 ELSE [hub EXCEPT !.sent[c] = <<frame>> \o @]
         IN  broadcastFromPrepending(next, connOf, Tail(order), frame)

RECURSIVE broadcastFrom(_, _, _, _)
broadcastFrom(hub, connOf, order, frame) ==
    IF order = <<>> THEN hub
    ELSE LET c == Head(order)
             next ==
                 IF WriteThrows(connOf, c)
                 THEN [hub EXCEPT !.clients = SelectSeq(@, LAMBDA d : d # c)]
                 ELSE [hub EXCEPT !.sent[c] = Append(@, frame)]
         IN  broadcastFrom(next, connOf, Tail(order), frame)

RECURSIVE broadcastAborting(_, _, _, _)
broadcastAborting(hub, connOf, order, frame) ==
    IF order = <<>> THEN hub
    ELSE IF connOf[Head(order)] = "broken" THEN [hub EXCEPT !.threw = TRUE]
    ELSE broadcastAborting([hub EXCEPT !.sent[Head(order)] = Append(@, frame)],
                           connOf, Tail(order), frame)

broadcastSSEAborting(hub, connOf, frame) ==
    broadcastAborting(hub, connOf, hub.clients, frame)

broadcastSSE(hub, connOf, frame) ==
    broadcastFrom(hub, connOf, hub.clients, frame)

(***************************************************************************)
(* Native client: ws.on("message") of server.js.  A message is             *)
(* [M |-> the sequence of A[0] objects, R |-> the initial payload or       *)
(* <<>>]; an object is the sequence of its <<key, value>> entries in       *)
(* Object.entries order.                                                   *)
(***************************************************************************)
\* the object with the given entries
FromEntries(entries) ==
    [key \in {entries[i][1] : i \in DOMAIN entries} |->
        LET i == CHOOSE j \in DOMAIN entries : entries[j][1] = key
        IN  entries[i][2]]

\* lines 103-111: one iteration of the Object.entries(updates).forEach
mergeEntry(state, key, value) ==
    IF IsPlainObject(value)
    THEN LET target == IF key \in DOMAIN state /\ ~Falsy(state[key])
                       THEN state[key]
                       ELSE Obj(NoKids)
             merged == deepMerge(target, value)
         IN  IF merged = Throw THEN [state |-> state, threw |-> TRUE]
             ELSE [state |-> (key :> merged) @@ state, threw |-> FALSE]
    ELSE [state |-> (key :> value) @@ state, threw |-> FALSE]

\* lines 102-112: the forEach, left at the first iteration that raises
RECURSIVE mergeLoop(_, _)
mergeLoop(state, entries) ==
    IF entries = <<>> THEN [state |-> state, threw |-> FALSE]
    ELSE LET one == mergeEntry(state, entries[1][1], entries[1][2])
         IN  IF one.threw THEN one
             ELSE mergeLoop(one.state, Tail(entries))

\* lines 96-118: message.M.forEach: merge, then broadcast "update"; every
\* element of M has a non-empty A.  run is [state, hub, threw, seq]; seq
\* numbers the merged updates.
RECURSIVE handleM(_, _, _)
handleM(run, connOf, M) ==
    IF M = <<>> \/ run.threw THEN run
    ELSE LET updates == Head(M)
             merged == mergeLoop(run.state, updates)
             frame == [type |-> "update", data |-> FromEntries(updates),
                       seq |-> run.seq + 1]
             cast == broadcastSSE(run.hub, connOf, frame)
         IN  IF merged.threw
             THEN [run EXCEPT !.state = merged.state, !.threw = TRUE]
             ELSE handleM([run EXCEPT !.state = merged.state,
                                      !.hub = [cast EXCEPT !.threw = FALSE],
                                      !.threw = cast.threw,
                                      !.seq = @ + 1],
                          connOf, Tail(M))

\* lines 121-126: the initial payload overwrites key by key, without a broadcast
handleR(state, R) ==
    [key \in (DOMAIN state) \cup {R[i][1] : i \in DOMAIN R} |->
        IF key \in {R[i][1] : i \in DOMAIN R} THEN FromEntries(R)[key]
        ELSE state[key]]

\* lines 91-130: the whole handler, inside its try/catch
onWsMessage(state, hub, connOf, seq, message) ==
    LET run == handleM([state |-> state, hub |-> hub, threw |-> FALSE,
                        seq |-> seq], connOf, message.M)
    IN  IF run.threw \/ message.R = <<>> THEN run
        ELSE [run EXCEPT !.state = handleR(@, message.R)]

WsMessage(message) ==
    /\ mode = "native"
    /\ LET run == onWsMessage(currentState,
                              [clients |-> sseClients, sent |-> sent,
                               threw |-> FALSE],
                              conn, nMerged, message)
       IN  /\ currentState' = run.state
           /\ sseClients' = run.hub.clients
           /\ sent' = run.hub.sent
           /\ nMerged' = run.seq
           /\ nMsgs' = nMsgs + 1
           /\ lastOp' = [op |-> "ws", message |-> message,
                         before |-> currentState, threw |-> run.threw]
    /\ UNCHANGED <<lifeVars, mode, conn, rawState, adapterVars, upstream>>

(***************************************************************************)
(* Relay: F1DashClient.handleUpdate of live-polling.js.                    *)
(***************************************************************************)
\* lines 760-786: merge in place, then emit "update" and "state"
DashUpdate(data) ==
    /\ mode = "relay"
    /\ rawState' = dashDeepMerge(Obj(rawState), Obj(FromEntries(data))).kids
    /\ nMsgs' = nMsgs + 1
    /\ lastOp' = [op |-> "dash", data |-> data, before |-> rawState,
                  threw |-> FALSE]
    /\ UNCHANGED <<lifeVars, mode, currentState, hubVars, nMerged, adapterVars,
                   upstream>>

(***************************************************************************)
(* OpenF1 records.  A numeric field that is null or absent holds NullNum;  *)
(* a duration is in whole seconds and 0 stands for null (both are falsy);  *)
(* a string field that is null or absent holds "".  A text the adapters    *)
(* build is a sequence of integers: "" is <<>>, String(n) is <<n>>,        *)
(* "M:SS" is <<M, SS>>.                                                    *)
(***************************************************************************)
NullNum == -1

EmptyText == <<>>

NullText == <<-1>>

Dashes == <<-2>>

\* String(n), `+${n.toFixed(3)}`
NumText(n) == <<n>>

\* x || "null-ish default" for strings and numbers
OrElse(x, falsy, default) == IF x = falsy THEN default ELSE x

Has(f, key) == key \in DOMAIN f

FirstN(seq, n) ==
    IF Len(seq) > n THEN SubSeq(seq, 1, n) ELSE seq

\* array.slice(-n) of an array longer than n
LastN(seq, n) ==
    IF Len(seq) > n THEN SubSeq(seq, Len(seq) - n + 1, Len(seq)) ELSE seq

RECURSIVE FoldSeq(_, _, _)
FoldSeq(Op(_, _), acc, seq) ==
    IF seq = <<>> THEN acc ELSE FoldSeq(Op, Op(acc, Head(seq)), Tail(seq))

\* flag.toUpperCase()
ToUpperCase(flag) ==
    CASE flag = "green" -> "GREEN"
      [] flag = "yellow" -> "YELLOW"
      [] OTHER -> flag

\* message.includes("VIRTUAL SAFETY CAR") / message.includes("SAFETY CAR")
IncludesVSC(message) ==
    message \in {"VIRTUAL SAFETY CAR DEPLOYED", "VIRTUAL SAFETY CAR ENDING"}

IncludesSC(message) ==
    IncludesVSC(message) \/ message \in {"SAFETY CAR DEPLOYED", "SAFETY CAR IN THIS LAP"}

\* the TrackStatus a flag gives, or <<>> when the flag changes nothing
FlagStatus(flag) ==
    LET f == ToUpperCase(flag)
    IN  CASE f = "GREEN" -> <<[Status |-> "1", Message |-> "AllClear"]>>
          [] f \in {"YELLOW", "DOUBLE YELLOW"} ->
                <<[Status |-> "2", Message |-> "Yellow"]>>
          [] f = "RED" -> <<[Status |-> "5", Message |-> "Red"]>>
          [] f = "CHEQUERED" -> <<[Status |-> "7", Message |-> "Chequered"]>>
          [] OTHER -> <<>>

\* the TrackStatus a safety-car message gives, or <<>>
SafetyCarStatus(message) ==
    IF IncludesVSC(message) THEN <<[Status |-> "6", Message |-> "VSC Deployed"]>>
    ELSE IF IncludesSC(message) THEN <<[Status |-> "4", Message |-> "SC Deployed"]>>
    ELSE <<>>

\* the stored form of a race-control record (all three adapters)
RaceControlEntry(msg) ==
    [Utc |-> msg.date,
     Category |-> OrElse(msg.category, "", "Other"),
     Message |-> msg.message,
     Flag |-> OrElse(msg.flag, "", "null"),
     Scope |-> OrElse(msg.scope, "", "null"),
     Sector |-> OrElse(msg.sector, 0, NullNum),
     DriverNumber |-> OrElse(msg.driver_number, 0, NullNum),
     LapNumber |-> OrElse(msg.lap_number, 0, NullNum)]

\* the stored form of a team-radio record (all three adapters)
RadioEntry(radio) ==
    [Utc |-> radio.date,
     RacingNumber |-> radio.driver_number,
     Path |-> radio.recording_url]

(***************************************************************************)
(* Replay simulator (server.js, lines 271-882).                            *)
(***************************************************************************)
TOTAL_LAPS == 51

RC_KEEP == 50

RADIO_KEEP == 30

SECTOR_MAX == 60

LAP_MAX == 300

LAP_VALID_BELOW == 150

\* formatSectorTime(seconds)
formatSectorTime(seconds) ==
    IF seconds = 0 \/ seconds > SECTOR_MAX THEN NullText ELSE NumText(seconds)

\* formatLapTime(seconds) of the replay: M:SS.sss
formatLapTime(seconds) ==
    IF seconds = 0 \/ seconds > LAP_MAX THEN NullText
    ELSE <<seconds \div 60, seconds % 60>>

\* getSegmentStatus(value)
getSegmentStatus(value) ==
    CASE value = 2051 -> "OverallFastest"
      [] value = 2049 -> "PersonalFastest"
      [] value = 2048 -> "Completed"
      [] OTHER -> "null"

\* (segments || []).map(getSegmentStatus).filter(Boolean)
SegmentStatuses(segments) ==
    SelectSeq([i \in DOMAIN segments |-> getSegmentStatus(segments[i])],
              LAMBDA v : v # "null")

\* the session roster, in the order of the drivers response
Roster == <<"44", "1">>

\* buildInitialState: one timing line
InitialLine(gridPosition) ==
    [Line |-> gridPosition,
     Position |-> NumText(gridPosition),
     GapToLeader |-> IF gridPosition = 1 THEN EmptyText ELSE Dashes,
     IntervalToPositionAhead |->
         [Value |-> IF gridPosition = 1 THEN EmptyText ELSE Dashes],
     LastLapTime |-> [Value |-> EmptyText],
     BestLapTime |-> [Value |-> EmptyText],
     NumberOfLaps |-> 0,
     Sectors |-> [k \in {"0", "1", "2"} |->
                     [Value |-> EmptyText, Segments |-> <<>>]],
     InPit |-> FALSE,
     PitOut |-> FALSE,
     Retired |-> FALSE]

\* buildInitialState(session, drivers, startingGrid)
buildInitialState(drivers, startingGrid) ==
    LET index(num) == CHOOSE i \in DOMAIN drivers : drivers[i] = num
        nums == {drivers[i] : i \in DOMAIN drivers}
        gridPosition(num) ==
            IF Has(startingGrid, num) /\ startingGrid[num] # 0
            THEN startingGrid[num] ELSE index(num)
    IN  [SessionInfo |-> [Type |-> "Race"],
         LapCount |-> [CurrentLap |-> 1, TotalLaps |-> TOTAL_LAPS],
         TrackStatus |-> [Status |-> "1", Message |-> "AllClear"],
         WeatherData |-> [AirTemp |-> "28"],
         ExtrapolatedClock |-> [Remaining |-> <<0, 0, 0>>],
         DriverList |-> [num \in nums |-> [RacingNumber |-> num]],
         TimingData |-> [Lines |-> [num \in nums |-> InitialLine(gridPosition(num))]],
         TimingAppData |-> [Lines |-> [num \in nums |->
             [Stints |-> <<[Compound |-> "MEDIUM", TotalLaps |-> 0]>>]]],
         Position |-> [Position |-> NoKids],
         RaceControlMessages |-> [Messages |-> <<>>],
         TeamRadio |-> [Captures |-> <<>>]]

\* processData, lines 535-541: one position record
processDataPosition(state, pos) ==
    LET num == pos.driver_number
    IN  IF Has(state.TimingData.Lines, num)
        THEN [state EXCEPT !.TimingData.Lines[num].Line = pos.position,
                           !.TimingData.Lines[num].Position = NumText(pos.position)]
        ELSE state

\* processData, lines 544-559: one interval record
processDataInterval(state, int) ==
    LET num == int.driver_number
    IN  IF ~Has(state.TimingData.Lines, num) THEN state
        ELSE IF int.gap_to_leader = 0 \/ int.gap_to_leader = NullNum
        THEN [state EXCEPT
                !.TimingData.Lines[num].GapToLeader = EmptyText,
                !.TimingData.Lines[num].IntervalToPositionAhead =
                    [Value |-> EmptyText]]
        ELSE [state EXCEPT
                !.TimingData.Lines[num].GapToLeader = NumText(int.gap_to_leader),
                !.TimingData.Lines[num].IntervalToPositionAhead =
                    [Value |-> IF int.interval # NullNum
                               THEN NumText(int.interval) ELSE EmptyText]]

\* processData, lines 589-613: one sector of a lap record
SectorOf(old, duration, segments) ==
    IF duration # 0
    THEN [Value |-> formatSectorTime(duration),
          Segments |-> SegmentStatuses(segments)]
    ELSE old

\* processData, lines 569-576, had it no comparison with the global count
processDataLapLatest(acc, lap) ==
    LET num == lap.driver_number
        state == acc.state
    IN  IF ~Has(state.TimingData.Lines, num) THEN acc
        ELSE
        LET counted == lap.lap_number > state.TimingData.Lines[num].NumberOfLaps
        IN  [state |->
                [state EXCEPT
                    !.TimingData.Lines[num].NumberOfLaps =
                        IF counted THEN lap.lap_number ELSE @,
                    !.LapCount.CurrentLap =
                        IF counted THEN lap.lap_number ELSE @],
             best |-> acc.best]

\* processData, lines 562-618: one lap record; acc is [state, best]
processDataLap(acc, lap) ==
    LET num == lap.driver_number
        state == acc.state
    IN  IF ~Has(state.TimingData.Lines, num) THEN acc
        ELSE
        LET line == state.TimingData.Lines[num]
            counted == lap.lap_number > line.NumberOfLaps
            valid == lap.lap_duration # 0 /\ lap.lap_duration < LAP_VALID_BELOW
            isBest == valid /\ (\/ ~Has(acc.best, num)
                                \/ acc.best[num] = 0
                                \/ lap.lap_duration < acc.best[num])
            line2 ==
                [line EXCEPT
                    !.NumberOfLaps = IF counted THEN lap.lap_number ELSE @,
                    !.LastLapTime =
                        IF valid THEN [Value |-> formatLapTime(lap.lap_duration)]
                        ELSE @,
                    !.BestLapTime =
                        IF isBest THEN [Value |-> formatLapTime(lap.lap_duration)]
                        ELSE @,
                    !.Sectors["0"] =
                        SectorOf(@, lap.duration_sector_1, lap.segments_sector_1),
                    !.Sectors["1"] =
                        SectorOf(@, lap.duration_sector_2, lap.segments_sector_2),
                    !.Sectors["2"] =
                        SectorOf(@, lap.duration_sector_3, lap.segments_sector_3),
                    !.InPit = lap.is_pit_out_lap,
                    !.PitOut = lap.is_pit_out_lap]
        IN  [state |->
                [state EXCEPT
                    !.TimingData.Lines[num] = line2,
                    !.LapCount.CurrentLap =
                        IF counted /\ lap.lap_number > @ THEN lap.lap_number
                        ELSE @],
             best |-> IF isBest THEN (num :> lap.lap_duration) @@ acc.best
                      ELSE acc.best]

\* lines 621-628 (and the poller's processLocations): the latest location per
\* driver; a later record replaces an earlier one only with a greater time
latestLocation(latest, loc) ==
    LET num == loc.driver_number
    IN  IF ~Has(latest, num) \/ loc.date > latest[num].time
        THEN (num :> [time |-> loc.date, x |-> loc.x, y |-> loc.y]) @@ latest
        ELSE latest

\* lines 621-633
processDataLocations(state, locations) ==
    LET latest == FoldSeq(latestLocation, NoKids, locations)
    IN  [state EXCEPT !.Position.Position =
            [num \in (DOMAIN @) \cup (DOMAIN latest) |->
                IF Has(latest, num)
                THEN [X |-> latest[num].x, Y |-> latest[num].y]
                ELSE @[num]]]

\* `${msg.date}_${msg.message}`: a date holds no "_", so the text determines
\* the pair
MsgId(date, message) == <<date, message>>

\* processData, lines 637-661: one race-control record
processDataRaceControl(state, msg) ==
    LET msgId == MsgId(msg.date, msg.message)
        log == state.RaceControlMessages.Messages
        exists == \E i \in DOMAIN log : MsgId(log[i].Utc, log[i].Message) = msgId
    IN  IF exists THEN state
        ELSE [state EXCEPT !.RaceControlMessages.Messages =
                LastN(Append(log, RaceControlEntry(msg)), RC_KEEP)]

\* [...raceControl].reverse().find(pred): the last record that satisfies pred,
\* as <<record>>, or <<>>
FindLast(seq, pred(_)) ==
    LET hits == {i \in DOMAIN seq : pred(seq[i])}
    IN  IF hits = {} THEN <<>>
        ELSE <<seq[CHOOSE i \in hits : \A j \in hits : j <= i]>>

\* processData, lines 663-692: the track status of one batch
processDataTrackStatus(state, raceControl) ==
    LET lastFlagMsg ==
            FindLast(raceControl, LAMBDA m : m.flag # "" /\ m.scope = "Track")
        lastSCMsg == FindLast(raceControl, LAMBDA m : m.category = "SafetyCar")
        byFlag == IF lastFlagMsg = <<>> THEN <<>>
                  ELSE FlagStatus(lastFlagMsg[1].flag)
        bySC == IF lastSCMsg = <<>> THEN <<>>
                ELSE SafetyCarStatus(lastSCMsg[1].message)
        s1 == IF byFlag = <<>> THEN state
              ELSE [state EXCEPT !.TrackStatus = byFlag[1]]
    IN  IF bySC = <<>> THEN s1 ELSE [s1 EXCEPT !.TrackStatus = bySC[1]]

\* processData, lines 697-718: one team-radio record
processDataTeamRadio(state, radio) ==
    LET log == state.TeamRadio.Captures
        exists == \E i \in DOMAIN log : log[i].Path = radio.recording_url
    IN  IF exists THEN state
        ELSE [state EXCEPT !.TeamRadio.Captures =
                LastN(Append(log, RadioEntry(radio)), RADIO_KEEP)]

\* processData(data, state); best is driverBestLaps.  Gives [state, best].
processData(data, state, best) ==
    LET s1 == FoldSeq(processDataPosition, state, data.positions)
        s2 == FoldSeq(processDataInterval, s1, data.intervals)
        a3 == FoldSeq(processDataLap, [state |-> s2, best |-> best], data.laps)
        s4 == processDataLocations(a3.state, data.locations)
        s5 == IF data.raceControl = <<>> THEN s4
              ELSE processDataTrackStatus(
                       FoldSeq(processDataRaceControl, s4, data.raceControl),
                       data.raceControl)
        s6 == FoldSeq(processDataTeamRadio, s5, data.teamRadio)
    IN  [state |-> s6, best |-> a3.best]

(***************************************************************************)
(* REST poller (live-polling.js, lines 1-575).  The store is a function    *)
(* from keys to values; a timing line is a function from field names to    *)
(* values, {} being NoKids.                                                *)
(***************************************************************************)
\* obj[key] = value
SetField(obj, key, value) == (key :> value) @@ obj

\* if (!obj[key]) obj[key] = default
EnsureField(obj, key, default) ==
    IF Has(obj, key) THEN obj ELSE SetField(obj, key, default)

\* if (!Lines[num]) Lines[num] = {}; then the assignments of fields to it
AssignLine(state, num, fields) ==
    [state EXCEPT !.TimingData.Lines =
        SetField(@, num, fields @@ (IF Has(@, num) THEN @[num] ELSE NoKids))]

\* formatLapTime(seconds) of the poller and of the pub/sub client
liveFormatLapTime(seconds) ==
    IF seconds = 0 THEN EmptyText
    ELSE IF seconds \div 60 > 0 THEN <<seconds \div 60, seconds % 60>>
    ELSE <<seconds % 60>>

\* x ? x.toFixed(3) : ""
FixedOrEmpty(x) == IF x = 0 THEN EmptyText ELSE NumText(x)

\* x != null ? String(x) : ""
StringOrEmpty(x) == IF x = NullNum THEN EmptyText ELSE NumText(x)

\* the last record of a driver in the batch, whatever its time
latestPositionLast(latest, p) ==
    SetField(latest, p.driver_number, [time |-> p.date, position |-> p.position])

\* processPositions, lines 168-174
latestPosition(latest, p) ==
    LET num == p.driver_number
    IN  IF ~Has(latest, num) \/ p.date > latest[num].time
        THEN SetField(latest, num, [time |-> p.date, position |-> p.position])
        ELSE latest

\* the drivers of a per-driver table, in insertion order
RECURSIVE KeysInOrder(_)
KeysInOrder(records) ==
    IF records = <<>> THEN <<>>
    ELSE LET rest == KeysInOrder(SubSeq(records, 1, Len(records) - 1))
             num == records[Len(records)].driver_number
         IN  IF \E i \in DOMAIN rest : rest[i] = num THEN rest
             ELSE Append(rest, num)

\* Object.entries(latest).forEach(([num, data]) => ...line assignments...)
RECURSIVE AssignLines(_, _, _)
AssignLines(state, nums, fields) ==
    IF nums = <<>> THEN state
    ELSE AssignLines(AssignLine(state, Head(nums), fields[Head(nums)]),
                     Tail(nums), fields)

\* the assignments made for each entry of a per-driver table
ForEach(latest, fieldsOf(_)) == [num \in DOMAIN latest |-> fieldsOf(latest[num])]

\* processPositions(positions)
processPositions(state, positions) ==
    LET latestPositions == FoldSeq(latestPosition, NoKids, positions)
        s1 == EnsureField(state, "TimingData", [Lines |-> NoKids])
    IN  AssignLines(s1, KeysInOrder(positions), ForEach(latestPositions,
                    LAMBDA data : [Position |-> NumText(data.position)]))

\* processIntervals, lines 197-207
latestInterval(latest, i) ==
    LET num == i.driver_number
    IN  IF ~Has(latest, num) \/ i.date > latest[num].time
        THEN SetField(latest, num,
                 [time |-> i.date, gap |-> i.gap_to_leader, interval |-> i.interval])
        ELSE latest

\* processIntervals(intervals)
processIntervals(state, intervals) ==
    LET latestIntervals == FoldSeq(latestInterval, NoKids, intervals)
        s1 == EnsureField(state, "TimingData", [Lines |-> NoKids])
    IN  AssignLines(s1, KeysInOrder(intervals), ForEach(latestIntervals,
                    LAMBDA data :
                        [GapToLeader |-> StringOrEmpty(data.gap),
                         IntervalToPositionAhead |->
                             [Value |-> StringOrEmpty(data.interval)]]))

\* processLaps, lines 234-246
latestLap(latest, l) ==
    LET num == l.driver_number
    IN  IF ~Has(latest, num) \/ l.lap_number > latest[num].lapNumber
        THEN SetField(latest, num,
                 [lapNumber |-> l.lap_number,
                  lapDuration |-> l.lap_duration,
                  sector1 |-> l.duration_sector_1,
                  sector2 |-> l.duration_sector_2,
                  sector3 |-> l.duration_sector_3,
                  isPitOut |-> l.is_pit_out_lap])
        ELSE latest

\* processLaps(laps)
processLaps(state, laps) ==
    LET latestLaps == FoldSeq(latestLap, NoKids, laps)
        s1 == EnsureField(state, "TimingData", [Lines |-> NoKids])
    IN  AssignLines(s1, KeysInOrder(laps), ForEach(latestLaps,
                    LAMBDA data :
                        [NumberOfLaps |-> data.lapNumber,
                         LastLapTime |->
                             [Value |-> liveFormatLapTime(data.lapDuration)],
                         Sectors |->
                             [k \in {"0", "1", "2"} |->
                                 [Value |-> FixedOrEmpty(
                                     CASE k = "0" -> data.sector1
                                       [] k = "1" -> data.sector2
                                       [] OTHER -> data.sector3)]],
                         PitOut |-> data.isPitOut]))

\* processLocations(locations)
processLocations(state, locations) ==
    LET latestLocations == FoldSeq(latestLocation, NoKids, locations)
        s1 == EnsureField(state, "Position", [Position |-> NoKids])
    IN  [s1 EXCEPT !.Position.Position =
            [num \in (DOMAIN @) \cup (DOMAIN latestLocations) |->
                IF Has(latestLocations, num)
                THEN [X |-> latestLocations[num].x, Y |-> latestLocations[num].y]
                ELSE @[num]]]

\* updateTrackStatus(flag)
updateTrackStatus(state, flag) ==
    IF FlagStatus(flag) = <<>> THEN state
    ELSE SetField(state, "TrackStatus", FlagStatus(flag)[1])

\* processRaceControl, lines 308-349: one message
processRaceControlMessage(state, msg) ==
    LET log == state.RaceControlMessages.Messages
        exists == \E i \in DOMAIN log :
                      log[i].Utc = msg.date /\ log[i].Message = msg.message
        s1 == [state EXCEPT !.RaceControlMessages.Messages =
                  LastN(Append(log, RaceControlEntry(msg)), RC_KEEP)]
        s2 == IF msg.flag # "" /\ msg.scope = "Track"
              THEN updateTrackStatus(s1, msg.flag) ELSE s1
        bySC == IF msg.category = "SafetyCar"
                THEN SafetyCarStatus(msg.message) ELSE <<>>
    IN  IF exists THEN state
        ELSE IF bySC = <<>> THEN s2
        ELSE SetField(s2, "TrackStatus", bySC[1])

\* processRaceControl(messages)
processRaceControl(state, messages) ==
    FoldSeq(processRaceControlMessage,
            EnsureField(state, "RaceControlMessages", [Messages |-> <<>>]),
            messages)

processTeamRadioCaptureUnchecked(state, radio) ==
    [state EXCEPT !.TeamRadio.Captures =
        LastN(Append(@, RadioEntry(radio)), RADIO_KEEP)]

\* processTeamRadio, lines 362-386: one radio
processTeamRadioCapture(state, radio) ==
    LET log == state.TeamRadio.Captures
        exists == \E i \in DOMAIN log : log[i].Path = radio.recording_url
    IN  IF exists THEN state
        ELSE [state EXCEPT !.TeamRadio.Captures =
                LastN(Append(log, RadioEntry(radio)), RADIO_KEEP)]

\* processTeamRadio(radios)
processTeamRadio(state, radios) ==
    FoldSeq(processTeamRadioCapture,
            EnsureField(state, "TeamRadio", [Captures |-> <<>>]),
            radios)

\* processStints, lines 397-406
latestStint(latest, s) ==
    LET num == s.driver_number
    IN  IF ~Has(latest, num) \/ s.stint_number > latest[num].stintNumber
        THEN SetField(latest, num,
                 [stintNumber |-> s.stint_number,
                  compound |-> s.compound,
                  tyreAge |-> s.tyre_age_at_start])
        ELSE latest

\* processStints(stints)
processStints(state, stints) ==
    LET latestStints == FoldSeq(latestStint, NoKids, stints)
        s1 == EnsureField(state, "TimingData", [Lines |-> NoKids])
    IN  AssignLines(s1, KeysInOrder(stints), ForEach(latestStints,
                    LAMBDA data :
                        [Stints |-> [k \in {"0"} |->
                             [Compound |-> data.compound,
                              TotalLaps |-> data.tyreAge]],
                         NumberOfPitStops |->
                             IF data.stintNumber - 1 > 0
                             THEN data.stintNumber - 1 ELSE 0]))

\* pollData, lines 128-147: the seven disciplines of one poll
pollData(state, data) ==
    processStints(
      processTeamRadio(
        processRaceControl(
          processLocations(
            processLaps(
              processIntervals(
                processPositions(state, data.positions),
                data.intervals),
              data.laps),
            data.locations),
          data.raceControl),
        data.teamRadio),
      data.stints)

\* startLivePolling, lines 505-512: the keys set before the first await
livePollingKeys(state) ==
    LET s1 == EnsureField(state, "TimingData", [Lines |-> NoKids])
        s2 == EnsureField(s1, "DriverList", NoKids)
        s3 == EnsureField(s2, "Position", [Position |-> NoKids])
        s4 == EnsureField(s3, "RaceControlMessages", [Messages |-> <<>>])
        s5 == EnsureField(s4, "TeamRadio", [Captures |-> <<>>])
    IN  EnsureField(s5, "TrackStatus", [Status |-> "1", Message |-> "AllClear"])

\* startLivePolling, lines 505-532, and fetchDrivers, lines 77-89
livePollingInitialState(state, drivers) ==
    LET s7 == SetField(livePollingKeys(state), "SessionInfo", [Name |-> "Race"])
    IN  SetField(s7, "DriverList",
            [num \in {drivers[i] : i \in DOMAIN drivers} |-> [RacingNumber |-> num]])

\* fetchHistoricalData(sessionKey) of the poller
pollFetchHistoricalData(state, raceControl, teamRadio) ==
    LET s1 == IF Len(raceControl) > 0 THEN processRaceControl(state, raceControl)
              ELSE state
    IN  IF Len(teamRadio) > 0 THEN processTeamRadio(s1, teamRadio) ELSE s1

(***************************************************************************)
(* Pub/sub client (mqtt-client.js).  driverData maps a driver to the       *)
(* fields the handlers have set on its record.                             *)
(***************************************************************************)
\* a number stored without conversion to a string
RawNumber(n) == <<-3, n>>

\* driverData[num][field], or falsy when the field was never set
FieldOr(d, field, falsy) == IF Has(d, field) THEN d[field] ELSE falsy

\* if (!driverData[num]) driverData[num] = {}; then the assignments
AssignDriver(dd, num, fields) ==
    SetField(dd, num, fields @@ (IF Has(dd, num) THEN dd[num] ELSE NoKids))

\* value || "" of a number that may be null or absent
RawOrEmpty(x) == IF x = 0 \/ x = NullNum THEN EmptyText ELSE RawNumber(x)

\* updateTimingData(driverNum)
updateTimingData(state, dd, driverNum) ==
    LET s1 == EnsureField(state, "TimingData", [Lines |-> NoKids])
        d == dd[driverNum]
        position == FieldOr(d, "position", 0)
        lapNumber == FieldOr(d, "lapNumber", 0)
    IN  IF ~Has(dd, driverNum) THEN s1
        ELSE [s1 EXCEPT !.TimingData.Lines = SetField(@, driverNum,
            [Position |-> IF position = 0 \/ position = NullNum
                          THEN EmptyText ELSE NumText(position),
             GapToLeader |-> RawOrEmpty(FieldOr(d, "gapToLeader", 0)),
             IntervalToPositionAhead |->
                 [Value |-> RawOrEmpty(FieldOr(d, "interval", 0))],
             LastLapTime |->
                 [Value |-> liveFormatLapTime(FieldOr(d, "lapDuration", 0))],
             BestLapTime |->
                 [Value |-> liveFormatLapTime(FieldOr(d, "bestLap", 0))],
             Sectors |-> [k \in {"0", "1", "2"} |->
                 [Value |-> FixedOrEmpty(
                     CASE k = "0" -> FieldOr(d, "sector1", 0)
                       [] k = "1" -> FieldOr(d, "sector2", 0)
                       [] OTHER -> FieldOr(d, "sector3", 0))]],
             NumberOfLaps |-> IF lapNumber = NullNum THEN 0 ELSE lapNumber,
             InPit |-> FieldOr(d, "inPit", FALSE),
             PitOut |-> FieldOr(d, "isPitOutLap", FALSE),
             NumberOfPitStops |-> FieldOr(d, "pitStops", 0),
             Retired |-> FieldOr(d, "retired", FALSE)])]

\* the handlers give [state, dd]
Handled(state, dd) == [state |-> state, dd |-> dd]

\* handleSession(data)
handleSession(state, dd, data) ==
    Handled(SetField(state, "SessionInfo", [Name |-> data.session_name]), dd)

\* handleDriver(data)
handleDriver(state, dd, data) ==
    LET s1 == EnsureField(state, "DriverList", NoKids)
    IN  Handled([s1 EXCEPT !.DriverList =
                    SetField(@, data.driver_number,
                             [RacingNumber |-> data.driver_number])],
                dd)

\* handlePosition(data)
handlePosition(state, dd, data) ==
    LET dd1 == AssignDriver(dd, data.driver_number,
                   [position |-> data.position, positionDate |-> data.date])
    IN  Handled(updateTimingData(state, dd1, data.driver_number), dd1)

\* handleInterval(data)
handleInterval(state, dd, data) ==
    LET dd1 == AssignDriver(dd, data.driver_number,
                   [gapToLeader |-> data.gap_to_leader, interval |-> data.interval])
    IN  Handled(updateTimingData(state, dd1, data.driver_number), dd1)

\* handleLap(data)
handleLap(state, dd, data) ==
    LET dd1 == AssignDriver(dd, data.driver_number,
                   [lapNumber |-> data.lap_number,
                    lapDuration |-> data.lap_duration,
                    sector1 |-> data.duration_sector_1,
                    sector2 |-> data.duration_sector_2,
                    sector3 |-> data.duration_sector_3,
                    isPitOutLap |-> data.is_pit_out_lap])
    IN  Handled(updateTimingData(state, dd1, data.driver_number), dd1)

\* handleLocation(data)
handleLocation(state, dd, data) ==
    LET s1 == EnsureField(state, "Position", [Position |-> NoKids])
    IN  Handled([s1 EXCEPT !.Position.Position =
                    SetField(@, data.driver_number, [X |-> data.x, Y |-> data.y])],
                dd)

\* handleCarData(data)
handleCarData(state, dd, data) ==
    Handled(state, AssignDriver(dd, data.driver_number, [speed |-> data.speed]))

\* handleRaceControl(data)
handleRaceControl(state, dd, data) ==
    LET s0 == EnsureField(state, "RaceControlMessages", [Messages |-> <<>>])
        msg == RaceControlEntry(data)
        log == s0.RaceControlMessages.Messages
        exists == \E i \in DOMAIN log :
                      log[i].Utc = msg.Utc /\ log[i].Message = msg.Message
        s1 == IF exists THEN s0
              ELSE [s0 EXCEPT !.RaceControlMessages.Messages =
                       LastN(Append(log, msg), RC_KEEP)]
        byFlag == IF data.flag # "" /\ data.scope = "Track"
                  THEN FlagStatus(data.flag) ELSE <<>>
        s2 == IF byFlag = <<>> THEN s1 ELSE SetField(s1, "TrackStatus", byFlag[1])
        bySC == IF data.category = "SafetyCar"
                THEN SafetyCarStatus(data.message) ELSE <<>>
    IN  Handled(IF bySC = <<>> THEN s2 ELSE SetField(s2, "TrackStatus", bySC[1]),
                dd)

\* handleTeamRadio(data)
handleTeamRadio(state, dd, data) ==
    LET s0 == EnsureField(state, "TeamRadio", [Captures |-> <<>>])
        radio == RadioEntry(data)
        log == s0.TeamRadio.Captures
        exists == \E i \in DOMAIN log : log[i].Path = radio.Path
    IN  Handled(IF exists THEN s0
                ELSE [s0 EXCEPT !.TeamRadio.Captures =
                         LastN(Append(log, radio), RADIO_KEEP)],
                dd)

\* handleWeather(data)
handleWeather(state, dd, data) ==
    Handled(SetField(state, "WeatherData",
                     [AirTemp |-> NumText(data.air_temperature),
                      Rainfall |-> IF data.rainfall = 0 THEN "0" ELSE "1"]),
            dd)

\* handleStint(data)
handleStint(state, dd, data) ==
    LET dd1 == AssignDriver(dd, data.driver_number,
                   [compound |-> data.compound,
                    tyreAge |-> data.tyre_age_at_start,
                    stintNumber |-> data.stint_number])
    IN  Handled(updateTimingData(state, dd1, data.driver_number), dd1)

\* processMessage, lines 113-147: the switch on the topic name
processMessage(state, dd, topicName, data) ==
    CASE topicName = "sessions" -> handleSession(state, dd, data)
      [] topicName = "drivers" -> handleDriver(state, dd, data)
      [] topicName = "position" -> handlePosition(state, dd, data)
      [] topicName = "intervals" -> handleInterval(state, dd, data)
      [] topicName = "laps" -> handleLap(state, dd, data)
      [] topicName = "location" -> handleLocation(state, dd, data)
      [] topicName = "car_data" -> handleCarData(state, dd, data)
      [] topicName = "race_control" -> handleRaceControl(state, dd, data)
      [] topicName = "team_radio" -> handleTeamRadio(state, dd, data)
      [] topicName = "weather" -> handleWeather(state, dd, data)
      [] topicName = "stints" -> handleStint(state, dd, data)
      [] OTHER -> Handled(state, dd)

\* startMQTT, lines 641-648
mqttInitialState(state) ==
    LET s1 == EnsureField(state, "TimingData", [Lines |-> NoKids])
        s2 == EnsureField(s1, "DriverList", NoKids)
        s3 == EnsureField(s2, "Position", [Position |-> NoKids])
        s4 == EnsureField(s3, "RaceControlMessages", [Messages |-> <<>>])
        s5 == EnsureField(s4, "TeamRadio", [Captures |-> <<>>])
    IN  EnsureField(s5, "TrackStatus", [Status |-> "1", Message |-> "AllClear"])

\* fetchHistoricalData(sessionKey) of the pub/sub client, lines 458-490
mqttFetchHistoricalData(state, dd, raceControl, teamRadio, drivers) ==
    LET rcStep(acc, msg) == handleRaceControl(acc, dd, msg).state
        radioStep(acc, radio) == handleTeamRadio(acc, dd, radio).state
        driverStep(acc, driver) == handleDriver(acc, dd, driver).state
    IN  FoldSeq(driverStep,
                FoldSeq(radioStep, FoldSeq(rcStep, state, raceControl), teamRadio),
                drivers)

(***************************************************************************)
(* Adapter operations.  Each adapter is handed the hub's broadcast and the *)
(* store: broadcast(type, data) writes the frame {type, data} to every     *)
(* subscriber.  Frames carry the number of the update they announce.       *)
(***************************************************************************)
Hub == [clients |-> sseClients, sent |-> sent, threw |-> FALSE]

broadcastFn(hub, connOf, type, data, seq) ==
    broadcastSSE(hub, connOf, [type |-> type, data |-> data, seq |-> seq])

\* no record of any discipline
NoData ==
    [positions |-> <<>>, intervals |-> <<>>, laps |-> <<>>, locations |-> <<>>,
     raceControl |-> <<>>, teamRadio |-> <<>>, stints |-> <<>>]

\* the effect of one adapter step on the hub and on the history variables
Published(state, hub, op, data) ==
    /\ currentState' = state
    /\ sseClients' = hub.clients
    /\ sent' = hub.sent
    /\ nMsgs' = nMsgs + 1
    /\ lastOp' = [op |-> op, data |-> data, before |-> currentState,
                  threw |-> hub.threw]

\* startReplay, lines 725-776, up to the first poll
StartReplay(startingGrid) ==
    /\ mode = "replay"
    /\ ~replayStarted
    /\ replayStarted' = TRUE
    /\ LET state == buildInitialState(Roster, startingGrid) @@ currentState
       IN  Published(state, broadcastFn(Hub, conn, "initial", state, nMerged),
                     "startReplay", NoData)
    /\ UNCHANGED <<lifeVars, mode, conn, rawState, nMerged, driverBestLaps,
                   currentSessionKey, isRunning, mqttIsRunning, driverData>>

\* the eight keys of the frame of pollAndBroadcast, lines 848-857
ReplayFrameKeys ==
    {"ExtrapolatedClock", "LapCount", "TrackStatus", "TimingData",
     "TimingAppData", "Position", "RaceControlMessages", "TeamRadio"}

\* pollAndBroadcast after its fetch, lines 806-860, with the window's records
\* and the race time in seconds
pollAndBroadcast(data, raceSeconds) ==
    /\ LET done == processData(data, currentState, driverBestLaps)
           state == SetField(done.state, "ExtrapolatedClock",
                        [Remaining |-> <<raceSeconds \div 3600,
                                         (raceSeconds % 3600) \div 60,
                                         raceSeconds % 60>>])
           frame == [key \in ReplayFrameKeys |-> state[key]]
       IN  /\ driverBestLaps' = done.best
           /\ Published(state,
                        broadcastFn(Hub, conn, "update", frame, nMerged + 1),
                        "replayPoll", data)
    /\ nMerged' = nMerged + 1
    /\ UNCHANGED <<mode, conn, rawState, replayStarted, currentSessionKey,
                   isRunning, mqttIsRunning, driverData>>

\* pollAndBroadcast, lines 791-861, as one step
ReplayPoll(data, raceSeconds) ==
    /\ mode = "replay"
    /\ replayStarted
    /\ pollAndBroadcast(data, raceSeconds)
    /\ UNCHANGED lifeVars

\* startLivePolling, lines 495-541, with a session found
StartLivePolling(drivers, raceControl, teamRadio) ==
    /\ mode = "poller"
    /\ ~currentSessionKey
    /\ currentSessionKey' = TRUE
    /\ isRunning' = TRUE
    /\ Published(pollFetchHistoricalData(
                     livePollingInitialState(currentState, drivers),
                     raceControl, teamRadio),
                 Hub, "startLivePolling",
                 [NoData EXCEPT !.raceControl = raceControl,
                                !.teamRadio = teamRadio])
    /\ UNCHANGED <<lifeVars, mode, conn, rawState, nMerged, replayStarted,
                   driverBestLaps, mqttIsRunning, driverData>>

\* pollData after its fetches, lines 125-154
pollDataDone(data) ==
    /\ LET state == pollData(currentState, data)
       IN  Published(state,
                     broadcastFn(Hub, conn, "update", state, nMerged + 1),
                     "livePoll", data)
    /\ nMerged' = nMerged + 1
    /\ UNCHANGED <<mode, conn, rawState, adapterVars>>

\* pollData, lines 98-158, as one step
LivePoll(data) ==
    /\ mode = "poller"
    /\ currentSessionKey
    /\ pollDataDone(data)
    /\ UNCHANGED lifeVars

\* startMQTT, lines 624-652, with credentials configured
StartMQTT ==
    /\ mode = "mqtt"
    /\ ~mqttIsRunning
    /\ mqttIsRunning' = TRUE
    /\ Published(mqttInitialState(currentState), Hub, "startMQTT", NoData)
    /\ UNCHANGED <<lifeVars, mode, conn, rawState, nMerged, replayStarted,
                   driverBestLaps, currentSessionKey, isRunning, driverData>>

\* the records of a message, by discipline
TopicData(topicName, data) ==
    CASE topicName = "race_control" -> [NoData EXCEPT !.raceControl = <<data>>]
      [] topicName = "team_radio" -> [NoData EXCEPT !.teamRadio = <<data>>]
      [] topicName = "laps" -> [NoData EXCEPT !.laps = <<data>>]
      [] topicName = "position" -> [NoData EXCEPT !.positions = <<data>>]
      [] topicName = "intervals" -> [NoData EXCEPT !.intervals = <<data>>]
      [] topicName = "location" -> [NoData EXCEPT !.locations = <<data>>]
      [] topicName = "stints" -> [NoData EXCEPT !.stints = <<data>>]
      [] OTHER -> NoData

\* processMessage, lines 102-156, on one message
processMessageDone(topicName, data) ==
    /\ LET done == processMessage(currentState, driverData, topicName, data)
       IN  /\ driverData' = done.dd
           /\ Published(done.state,
                        broadcastFn(Hub, conn, "update", done.state, nMerged + 1),
                        "mqttMessage", TopicData(topicName, data))
    /\ nMerged' = nMerged + 1
    /\ UNCHANGED <<mode, conn, rawState, replayStarted, driverBestLaps,
                   currentSessionKey, isRunning, mqttIsRunning>>

\* client.on("message", processMessage) while the client runs
MqttMessage(topicName, data) ==
    /\ mode = "mqtt"
    /\ mqttIsRunning
    /\ processMessageDone(topicName, data)
    /\ UNCHANGED lifeVars

\* fetchHistoricalData, lines 436-496, after the connect event
MqttHistorical(raceControl, teamRadio, drivers) ==
    /\ mode = "mqtt"
    /\ mqttIsRunning
    /\ Published(mqttFetchHistoricalData(currentState, driverData, raceControl,
                                         teamRadio, drivers),
                 Hub, "mqttHistorical",
                 [NoData EXCEPT !.raceControl = raceControl,
                                !.teamRadio = teamRadio])
    /\ UNCHANGED <<lifeVars, mode, conn, rawState, nMerged, adapterVars>>

(***************************************************************************)
(* Initial state: server.js lines 8-9, F1DashClient constructor.           *)
(***************************************************************************)
\* `lastPollTime = null`, server.js line 306
NoTime == -1

\* `let pollInterval = null`, `let replayInterval = null`
NoTimer == 0

\* mqtt-client.js, line 37: `accessToken = null`
NoToken == [issued |-> NoTime, expires_in |-> 0]

InitIn(modes) ==
    /\ mode \in modes
    /\ currentState = EmptyStore
    /\ sseClients = <<>>
    /\ conn = [c \in Clients |-> "idle"]
    /\ sent = [c \in Clients |-> <<>>]
    /\ rawState = EmptyStore
    /\ replayStarted = FALSE
    /\ driverBestLaps = NoKids
    /\ currentSessionKey = FALSE
    /\ isRunning = FALSE
    /\ mqttIsRunning = FALSE
    /\ driverData = NoKids
    /\ ws = "none"
    /\ stopped = FALSE
    /\ request = "none"
    /\ reconnectAttempts = 0
    /\ disconnected = 0
    /\ mqttClient = "none"
    /\ storeId = 1
    /\ pollInterval = NoTimer
    /\ replayInterval = NoTimer
    /\ pending = {}
    /\ realElapsed = 0
    /\ lastPollTime = NoTime
    /\ inFlight = {}
    /\ windows = <<>>
    /\ buffer = <<>>
    /\ sockets = <<>>
    /\ accessToken = NoToken
    /\ tokenExpiry = NoTime
    /\ now = 0
    /\ upstream = NoFeed
    /\ nMsgs = 0
    /\ nMerged = 0
    /\ lastOp = NoOp

(***************************************************************************)
(* Merge specification: the native client and the relay fed with partial   *)
(* updates over keys "line" and "b".                                       *)
(***************************************************************************)
MaxMsgs == 2

PosValues ==
    { Num("1"), Num("2"), Null, Arr1(Num("1")), Arr2(Num("2"), Num("1")),
      Obj("x" :> Num("1")), Obj("x" :> Arr1(Num("1"))) }

GapValues == { Str("5"), Null }

LineObjects ==
    { Obj(NoKids) }
    \cup { Obj("pos" :> p) : p \in PosValues }
    \cup { Obj("gap" :> g) : g \in GapValues }
    \cup { Obj(("pos" :> p) @@ ("gap" :> g)) : p \in PosValues, g \in GapValues }

LineValues == LineObjects \cup { Num("1"), Str("5"), Null, Arr1(Num("1")) }

BValues == { Num("2"), Null }

PairedLineValues ==
    { Num("1"), Obj("pos" :> Num("2")), Obj("pos" :> Obj("x" :> Num("1"))),
      Obj("pos" :> Arr1(Num("1"))) }

MergeUpdates ==
    { << <<"line", v>> >> : v \in LineValues }
    \cup { << <<"b", w>> >> : w \in BValues }
    \cup { << <<"line", v>>, <<"b", w>> >> : v \in PairedLineValues, w \in BValues }
    \cup { << <<"b", w>>, <<"line", v>> >> : v \in PairedLineValues, w \in BValues }

InitMerge == InitIn({"native", "relay"})

NextMerge ==
    \/ \E u \in MergeUpdates :
            nMsgs < MaxMsgs /\ WsMessage([M |-> <<u>>, R |-> <<>>])
    \/ \E u \in MergeUpdates :
            nMsgs < MaxMsgs /\ DashUpdate(u)

SpecMerge == InitMerge /\ [][NextMerge]_vars

\* what the last handler was given, the store it found and the store it left
LastEntries ==
    IF lastOp.op = "ws" THEN lastOp.message.M[1] ELSE lastOp.data

LastAfter == IF lastOp.op = "ws" THEN currentState ELSE rawState

LastIsMerge == lastOp.op \in {"ws", "dash"}

(***************************************************************************)
(* C1-C4: the merge contract.                                              *)
(***************************************************************************)
\* every field of old that upd does not carry is in new with its value, at
\* every depth at which old and upd both hold plain objects
RECURSIVE Preserved(_, _, _)
Preserved(old, upd, new) ==
    \A f \in DOMAIN old.kids :
        /\ f \notin DOMAIN upd.kids =>
              f \in DOMAIN new.kids /\ new.kids[f] = old.kids[f]
        /\ (/\ f \in DOMAIN upd.kids
            /\ IsPlainObject(old.kids[f])
            /\ IsPlainObject(upd.kids[f])) =>
              /\ f \in DOMAIN new.kids
              /\ Preserved(old.kids[f], upd.kids[f], new.kids[f])

\* every scalar leaf that upd carries is in new with the carried value
RECURSIVE Carried(_, _)
Carried(upd, new) ==
    \A f \in DOMAIN upd.kids :
        /\ f \in DOMAIN new.kids
        /\ ~InstanceOfObject(upd.kids[f]) => new.kids[f] = upd.kids[f]
        /\ IsPlainObject(upd.kids[f]) => Carried(upd.kids[f], new.kids[f])

\* C1: when key K of the store holds an object and a partial update carries K
\* with an object, every field of K the update does not carry keeps its value
\* at every nesting depth, and once the handler has run to its end the scalar
\* fields the update carries hold the carried values.
DeepMergeNonDestructive ==
    LastIsMerge =>
        \A i \in DOMAIN LastEntries :
            LET K == LastEntries[i][1]
                value == LastEntries[i][2]
            IN  (/\ K \in DOMAIN lastOp.before
                 /\ IsPlainObject(lastOp.before[K])
                 /\ IsPlainObject(value)) =>
                    /\ K \in DOMAIN LastAfter
                    /\ Preserved(lastOp.before[K], value, LastAfter[K])
                    /\ ~lastOp.threw => Carried(value, LastAfter[K])

\* {line:{pos:1,gap:"5"}} merged with {line:{pos:2}} gave {line:{pos:2,gap:"5"}}
DeepMergeNonDestructiveWitness ==
    /\ lastOp.op = "ws"
    /\ lastOp.before = ("line" :> Obj(("pos" :> Num("1")) @@ ("gap" :> Str("5"))))
    /\ LastEntries = << <<"line", Obj("pos" :> Num("2"))>> >>
    /\ currentState = ("line" :> Obj(("pos" :> Num("2")) @@ ("gap" :> Str("5"))))

\* the store that merging the entries into the empty store gives
MergedOnce(op, entries) ==
    IF op = "ws" THEN mergeLoop(EmptyStore, entries).state
    ELSE dashDeepMerge(Obj(EmptyStore), Obj(FromEntries(entries))).kids

\* C2: merging an update a second time into the store that merging it into
\* the empty store gave leaves that store as it is, in value and in shape.
MergeIdempotent ==
    (/\ LastIsMerge
     /\ ~lastOp.threw
     /\ lastOp.before = MergedOnce(lastOp.op, LastEntries)) =>
        LastAfter = lastOp.before

\* the store after two handler calls, one per update
MergedInTurn(op, before, first, second) ==
    IF op = "ws"
    THEN mergeLoop(mergeLoop(before, first).state, second).state
    ELSE dashDeepMerge(dashDeepMerge(Obj(before), Obj(FromEntries(first))),
                       Obj(FromEntries(second))).kids

\* C3: merging {a,b} (disjoint top-level keys) in one call gives the store
\* that merging {a} then {b} gives, and that merging {b} then {a} gives.
MergeDisjointKeysIndependent ==
    (LastIsMerge /\ Len(LastEntries) = 2) =>
        LET a == <<LastEntries[1]>>
            b == <<LastEntries[2]>>
        IN  /\ LastAfter = MergedInTurn(lastOp.op, lastOp.before, a, b)
            /\ LastAfter = MergedInTurn(lastOp.op, lastOp.before, b, a)

\* every value of upd that is not a plain object is the value of new at that
\* key, at every depth
RECURSIVE Overwritten(_, _)
Overwritten(upd, new) ==
    \A f \in DOMAIN upd.kids :
        /\ f \in DOMAIN new.kids
        /\ ~IsPlainObject(upd.kids[f]) => new.kids[f] = upd.kids[f]
        /\ IsPlainObject(upd.kids[f]) => Overwritten(upd.kids[f], new.kids[f])

\* C4: after a merge that ran to its end, every array, string, number and
\* null the update carries has overwritten the value at its key, at the top
\* level and at every nested level, whatever the value there was.
MergeTypeRule ==
    (LastIsMerge /\ ~lastOp.threw) =>
        Overwritten(Obj(FromEntries(LastEntries)), Obj(LastAfter))

(***************************************************************************)
(* The message logs under a feed of race-control messages and radios.      *)
(* The feed numbers what it publishes: message n is new when n exceeds the *)
(* count published so far.  Two consecutive messages share a timestamp and *)
(* differ in text; messages two apart share the text.                      *)
(***************************************************************************)
MaxRc == 52

MaxRadio == 32

MaxAgain == 1

RcMsg(n) ==
    [date |-> (n + 1) \div 2,
     message |-> IF n % 2 = 1 THEN "TRACK CLEAR" ELSE "SAFETY CAR DEPLOYED",
     category |-> IF n % 2 = 1 THEN "Flag" ELSE "SafetyCar",
     flag |-> IF n % 2 = 1 THEN "GREEN" ELSE "",
     scope |-> IF n % 2 = 1 THEN "Track" ELSE "",
     sector |-> 0,
     driver_number |-> 0,
     lap_number |-> 0]

RadioMsg(n) ==
    [date |-> (n + 1) \div 2,
     driver_number |-> IF n % 2 = 1 THEN "44" ELSE "1",
     recording_url |-> n]

\* what one request or message carries: nothing, the next message, the next
\* two, the next one twice, or again the first or the last one published
Shapes == {"none", "new", "new2", "twice", "first", "last"}

Batch(shape, n, Msg(_)) ==
    CASE shape = "new" -> <<Msg(n + 1)>>
      [] shape = "new2" -> <<Msg(n + 1), Msg(n + 2)>>
      [] shape = "twice" -> <<Msg(n + 1), Msg(n + 1)>>
      [] shape = "first" -> <<Msg(1)>>
      [] shape = "last" -> <<Msg(n)>>
      [] OTHER -> <<>>

NewIn(shape) ==
    CASE shape \in {"new", "twice"} -> 1 [] shape = "new2" -> 2 [] OTHER -> 0

AgainIn(shape) == IF shape \in {"twice", "first", "last"} THEN 1 ELSE 0

\* the feed can publish the shapes, and has then published them
Feed(rcShape, radioShape) ==
    /\ rcShape \in {"first", "last"} => upstream.rc > 0
    /\ radioShape \in {"first", "last"} => upstream.radio > 0
    /\ upstream.rc + NewIn(rcShape) <= MaxRc
    /\ upstream.radio + NewIn(radioShape) <= MaxRadio
    /\ upstream.rcAgain + AgainIn(rcShape) <= MaxAgain
    /\ upstream.radioAgain + AgainIn(radioShape) <= MaxAgain
    /\ upstream' = [rc |-> upstream.rc + NewIn(rcShape),
                    radio |-> upstream.radio + NewIn(radioShape),
                    rcAgain |-> upstream.rcAgain + AgainIn(rcShape),
                    radioAgain |-> upstream.radioAgain + AgainIn(radioShape)]

RcBatch(shape) == Batch(shape, upstream.rc, RcMsg)

RadioBatch(shape) == Batch(shape, upstream.radio, RadioMsg)

\* what a time window or a poll can hold: new messages come in pairs, and
\* singly after one came twice
WindowShapes ==
    IF upstream.rc % 2 = 0 THEN {"new2", "twice", "first", "last"}
    ELSE {"new", "first", "last"}

\* the radios of a window: as many as race-control messages, while the feed
\* has radios left
RadioShape(rcShape) ==
    IF /\ upstream.radio + NewIn(rcShape) <= MaxRadio
       /\ upstream.radioAgain + AgainIn(rcShape) <= MaxAgain
    THEN rcShape ELSE "none"

\* single messages alternate between the two topics
RcTurn ==
    \/ upstream.rc + upstream.rcAgain <= upstream.radio + upstream.radioAgain
    \/ upstream.radio = MaxRadio

ClockSeconds == 3725

InitLog == InitIn({"replay", "poller", "mqtt"})

NextLog ==
    \/ StartReplay(NoKids) /\ UNCHANGED upstream
    \/ \E a \in WindowShapes :
            /\ Feed(a, RadioShape(a))
            /\ ReplayPoll([NoData EXCEPT !.raceControl = RcBatch(a),
                                         !.teamRadio = RadioBatch(RadioShape(a))],
                          ClockSeconds)
    \/ \E a \in {"none", "new2"} :
            /\ Feed(a, a)
            /\ StartLivePolling(Roster, RcBatch(a), RadioBatch(a))
    \/ \E a \in WindowShapes :
            /\ Feed(a, RadioShape(a))
            /\ LivePoll([NoData EXCEPT !.raceControl = RcBatch(a),
                                       !.teamRadio = RadioBatch(RadioShape(a))])
    \/ StartMQTT /\ UNCHANGED upstream
    \/ \E a \in {"new", "first", "last"} :
            /\ RcTurn
            /\ Feed(a, "none")
            /\ MqttMessage("race_control", RcBatch(a)[1])
    \/ \E b \in {"new", "first", "last"} :
            /\ ~RcTurn
            /\ Feed("none", b)
            /\ MqttMessage("team_radio", RadioBatch(b)[1])
    \/ \E a \in {"new2", "last"} :
            /\ upstream.rc = upstream.radio
            /\ a = "new2" => upstream.rc = 0
            /\ Feed(a, a)
            /\ MqttHistorical(RcBatch(a), RadioBatch(a), <<>>)

SpecLog == InitLog /\ [][NextLog]_vars

\* the logs of a store
RcLog(state) ==
    IF Has(state, "RaceControlMessages") THEN state.RaceControlMessages.Messages
    ELSE <<>>

RadioLog(state) ==
    IF Has(state, "TeamRadio") THEN state.TeamRadio.Captures ELSE <<>>

LastFed ==
    lastOp.op \in {"replayPoll", "startLivePolling", "livePoll", "mqttMessage",
                   "mqttHistorical"}

(***************************************************************************)
(* C5-C6: the message logs.                                                *)
(***************************************************************************)
\* no two entries of the log have the same key
NoTwoAlike(log, Key(_)) ==
    \A i, j \in DOMAIN log : Key(log[i]) = Key(log[j]) => i = j

RcKey(entry) == <<entry.Utc, entry.Message>>

\* every submitted record has its key in the log
AllStored(records, log, KeyOfRecord(_), Key(_)) ==
    \A i \in DOMAIN records :
        \E j \in DOMAIN log : Key(log[j]) = KeyOfRecord(records[i])

\* C5: the race-control log never holds two entries with the same (timestamp,
\* text) pair, the radio log never two entries with the same recording path,
\* and a submission of messages whose keys are all stored leaves the log as
\* it was.
MessageDedup ==
    /\ NoTwoAlike(RcLog(currentState), RcKey)
    /\ NoTwoAlike(RadioLog(currentState), LAMBDA r : r.Path)
    /\ LastFed =>
        /\ AllStored(lastOp.data.raceControl, RcLog(lastOp.before),
                     LAMBDA m : <<m.date, m.message>>, RcKey)
              => RcLog(currentState) = RcLog(lastOp.before)
        /\ AllStored(lastOp.data.teamRadio, RadioLog(lastOp.before),
                     LAMBDA r : r.recording_url, LAMBDA r : r.Path)
              => RadioLog(currentState) = RadioLog(lastOp.before)

\* a stored message came again, and a request carried one new message twice
MessageDedupWitness ==
    /\ LastFed
    /\ upstream.rcAgain = 1
    /\ upstream.radioAgain = 1
    /\ Len(lastOp.data.raceControl) = 1
    /\ AllStored(lastOp.data.raceControl, RcLog(lastOp.before),
                 LAMBDA m : <<m.date, m.message>>, RcKey)
    /\ Len(RcLog(currentState)) = upstream.rc
    /\ Len(RadioLog(currentState)) = upstream.radio
    /\ upstream.rc > 1

\* the keys of the first n messages the feed published, in order
PublishedRc(n) == [i \in 1..n |-> <<RcMsg(i).date, RcMsg(i).message>>]

PublishedRadio(n) == [i \in 1..n |-> RadioMsg(i).recording_url]

KeysOf(log, Key(_)) == [i \in DOMAIN log |-> Key(log[i])]

\* the n most recent of the published keys, oldest first
MostRecent(keys, n) ==
    [i \in 1..(IF Len(keys) > n THEN n ELSE Len(keys)) |->
        keys[i + (IF Len(keys) > n THEN Len(keys) - n ELSE 0)]]

\* C6: the race-control log has at most 50 entries and the radio log at most
\* 30, and while every submitted message was distinct the log holds the most
\* recently submitted 50 (30), in submission order.
MessageLogBound ==
    /\ Len(RcLog(currentState)) <= RC_KEEP
    /\ Len(RadioLog(currentState)) <= RADIO_KEEP
    /\ upstream.rcAgain = 0 =>
          KeysOf(RcLog(currentState), RcKey)
              = MostRecent(PublishedRc(upstream.rc), RC_KEEP)
    /\ upstream.radioAgain = 0 =>
          KeysOf(RadioLog(currentState), LAMBDA r : r.Path)
              = MostRecent(PublishedRadio(upstream.radio), RADIO_KEEP)

\* more messages than the log keeps were submitted, and the oldest are gone
MessageLogBoundWitness ==
    /\ upstream.rc > RC_KEEP
    /\ upstream.radio > RADIO_KEEP
    /\ upstream.rcAgain = 0
    /\ upstream.radioAgain = 0
    /\ Len(RcLog(currentState)) = RC_KEEP
    /\ RcKey(RcLog(currentState)[1]) = PublishedRc(upstream.rc)[upstream.rc - RC_KEEP + 1]
    /\ RadioLog(currentState)[1].Path = upstream.radio - RADIO_KEEP + 1

(***************************************************************************)
(* The timing lines under a feed of lap, position, interval, location and  *)
(* stint records.                                                          *)
(***************************************************************************)
MaxSteps == 3

Lap(num, n, duration, sector, pitOut) ==
    [driver_number |-> num, lap_number |-> n, lap_duration |-> duration,
     duration_sector_1 |-> sector, duration_sector_2 |-> sector,
     duration_sector_3 |-> 0,
     segments_sector_1 |-> <<2048, 2051, 0>>, segments_sector_2 |-> <<>>,
     segments_sector_3 |-> <<>>,
     is_pit_out_lap |-> pitOut]

LapRecords ==
    { Lap("44", 10, 95, 30, FALSE), Lap("44", 9, 90, 29, FALSE),
      Lap("44", 11, 200, 70, TRUE), Lap("44", NullNum, 0, 0, FALSE),
      Lap("1", 10, 96, 31, FALSE), Lap("1", 9, 0, 0, TRUE) }

LapBatches ==
    { <<l>> : l \in LapRecords }
    \cup { <<l, m>> : l, m \in { Lap("44", 10, 95, 30, FALSE),
                                 Lap("44", 9, 90, 29, FALSE),
                                 Lap("1", 10, 96, 31, FALSE) } }

PositionRecords ==
    { [driver_number |-> "44", position |-> 1, date |-> 5],
      [driver_number |-> "44", position |-> 2, date |-> 4],
      [driver_number |-> "63", position |-> 3, date |-> 5] }

IntervalRecords ==
    { [driver_number |-> "44", gap_to_leader |-> 0, interval |-> 0, date |-> 5],
      [driver_number |-> "44", gap_to_leader |-> 7, interval |-> NullNum, date |-> 4],
      [driver_number |-> "1", gap_to_leader |-> NullNum, interval |-> NullNum,
       date |-> 5] }

LocationRecords ==
    { [driver_number |-> "44", x |-> 100, y |-> 200, date |-> 5],
      [driver_number |-> "44", x |-> 110, y |-> 210, date |-> 4] }

StintRecords ==
    { [driver_number |-> "44", stint_number |-> 2, compound |-> "SOFT",
       tyre_age_at_start |-> 3],
      [driver_number |-> "44", stint_number |-> 1, compound |-> "HARD",
       tyre_age_at_start |-> 0] }

\* the windows and polls of the feed
LapData ==
    { [NoData EXCEPT !.laps = b] : b \in LapBatches }
    \cup { [NoData EXCEPT
              !.positions = <<p, [driver_number |-> "44", position |-> 2,
                                  date |-> 4]>>,
              !.intervals = <<i>>,
              !.locations = <<[driver_number |-> "44", x |-> 100, y |-> 200,
                               date |-> 5],
                              [driver_number |-> "44", x |-> 110, y |-> 210,
                               date |-> 4]>>,
              !.stints = <<[driver_number |-> "44", stint_number |-> 2,
                            compound |-> "SOFT", tyre_age_at_start |-> 3],
                           [driver_number |-> "44", stint_number |-> 1,
                            compound |-> "HARD", tyre_age_at_start |-> 0]>>] :
             p \in PositionRecords, i \in IntervalRecords }

\* single messages, by topic
LapMessages ==
    { <<"laps", l>> : l \in LapRecords }
    \cup { <<"position", p>> : p \in PositionRecords }
    \cup { <<"intervals", i>> : i \in IntervalRecords }
    \cup { <<"location", l>> : l \in LocationRecords }
    \cup { <<"stints", s>> : s \in StintRecords }
    \cup { <<"car_data", [driver_number |-> "44", speed |-> 300]>>,
           <<"drivers", [driver_number |-> "44"]>>,
           <<"sessions", [session_name |-> "Race"]>>,
           <<"weather", [air_temperature |-> 28, rainfall |-> 0]>> }

Grids == { NoKids, [num \in {"1"} |-> 1] }

InitLap == InitIn({"replay", "poller", "mqtt"})

NextLap ==
    \/ \E grid \in Grids : StartReplay(grid) /\ UNCHANGED upstream
    \/ \E data \in LapData :
            nMsgs < MaxSteps /\ ReplayPoll(data, ClockSeconds) /\ UNCHANGED upstream
    \/ StartLivePolling(Roster, <<>>, <<>>) /\ UNCHANGED upstream
    \/ \E data \in LapData :
            nMsgs < MaxSteps /\ LivePoll(data) /\ UNCHANGED upstream
    \/ StartMQTT /\ UNCHANGED upstream
    \/ \E m \in LapMessages :
            nMsgs < MaxSteps /\ MqttMessage(m[1], m[2]) /\ UNCHANGED upstream

SpecLap == InitLap /\ [][NextLap]_vars

\* the timing lines of a store, and the lap count of a line
LinesOf(state) ==
    IF Has(state, "TimingData") THEN state.TimingData.Lines ELSE NoKids

LapsOf(line) == IF Has(line, "NumberOfLaps") THEN line.NumberOfLaps ELSE 0

(***************************************************************************)
(* C7: lap counts.                                                         *)
(***************************************************************************)
\* C7: no step of the replay, the poller or the pub/sub client lowers a
\* driver's NumberOfLaps; lap 10 followed by lap 9 leaves it at 10.
LapCountMonotonic ==
    lastOp.op \in {"replayPoll", "livePoll", "mqttMessage"} =>
        \A num \in DOMAIN LinesOf(lastOp.before) :
            /\ num \in DOMAIN LinesOf(currentState)
            /\ LapsOf(LinesOf(currentState)[num]) >= LapsOf(LinesOf(lastOp.before)[num])

(***************************************************************************)
(* Subscribers: the /api/sse handler of server.js, lines 218-248.          *)
(***************************************************************************)
\* GET /api/sse: the snapshot, if the store has a key, then the add
Register(c) ==
    /\ conn[c] = "idle"
    /\ sent' = [sent EXCEPT ![c] =
                   IF DOMAIN currentState # {}
                   THEN Append(@, [type |-> "initial", data |-> currentState,
                                   seq |-> nMerged])
                   ELSE @]
    /\ sseClients' = Append(sseClients, c)
    /\ conn' = [conn EXCEPT ![c] = "open"]
    /\ lastOp' = [op |-> "register", client |-> c, before |-> currentState,
                  threw |-> FALSE]
    /\ UNCHANGED <<lifeVars, mode, currentState, rawState, nMsgs, nMerged, adapterVars,
                   upstream>>

\* the transport of a subscriber fails: a later write to it throws
Break(c) ==
    /\ conn[c] = "open"
    /\ conn' = [conn EXCEPT ![c] = "broken"]
    /\ lastOp' = [op |-> "break", client |-> c, before |-> currentState,
                  threw |-> FALSE]
    /\ UNCHANGED <<lifeVars, mode, currentState, sseClients, sent, rawState, nMsgs, nMerged,
                   adapterVars, upstream>>

\* req.on("close"), lines 241-245
Close(c) ==
    /\ conn[c] \in {"open", "broken"}
    /\ conn' = [conn EXCEPT ![c] = "closed"]
    /\ sseClients' = SelectSeq(sseClients, LAMBDA d : d # c)
    /\ lastOp' = [op |-> "close", client |-> c, before |-> currentState,
                  threw |-> FALSE]
    /\ UNCHANGED <<lifeVars, mode, currentState, sent, rawState, nMsgs, nMerged,
                   adapterVars, upstream>>

(***************************************************************************)
(* The hub under subscribers that come, fail and go while the native       *)
(* client or the replay feeds the store.                                   *)
(***************************************************************************)
MaxHubMsgs == 2

\* updates of the native feed; the last makes the merge of "a" raise when the
\* store holds a number at "a"
HubUpdates ==
    { << <<"a", Num("1")>> >>,
      << <<"b", Num("2")>>, <<"a", Obj("x" :> Obj("y" :> Num("1")))>> >> }

HubMessages ==
    { [M |-> <<u>>, R |-> <<>>] : u \in HubUpdates }
    \cup { [M |-> << << <<"a", Num("1")>> >>, << <<"b", Num("2")>> >> >>, R |-> <<>>],
           [M |-> <<>>, R |-> << <<"r", Num("1")>> >>] }

HubData ==
    { [NoData EXCEPT !.laps = <<Lap("44", 10, 95, 30, FALSE)>>],
      [NoData EXCEPT !.raceControl = <<RcMsg(1)>>] }

\* subscribers come in the order of their names
ClientOrder == <<"c1", "c2", "c3">>

MayRegister(c) ==
    \A i, j \in DOMAIN ClientOrder :
        (ClientOrder[i] = c /\ j < i) => conn[ClientOrder[j]] # "idle"

InitHub == InitIn({"native", "replay"})

NextHub ==
    \/ \E c \in Clients : MayRegister(c) /\ Register(c)
    \/ \E c \in Clients : Break(c)
    \/ \E c \in Clients : Close(c)
    \/ \E message \in HubMessages : nMsgs < MaxHubMsgs /\ WsMessage(message)
    \/ StartReplay(NoKids) /\ UNCHANGED upstream
    \/ \E data \in HubData :
            nMsgs < MaxHubMsgs /\ ReplayPoll(data, ClockSeconds)
                               /\ UNCHANGED upstream

SpecHub == InitHub /\ [][NextHub]_vars

\* the subscribers in the set, and those of them whose transport is sound
Registered == {sseClients[i] : i \in DOMAIN sseClients}

\* the number of frames a step broadcast: one per update, one for the
\* snapshot of a starting replay
Broadcasts ==
    IF lastOp'.op = "startReplay" THEN 1 ELSE nMerged' - nMerged

\* the handler of the step met no error of its own: the merges of a native
\* message run to their end when no subscriber is there to be written to
HandlerRanThrough ==
    lastOp'.op = "ws" =>
        ~onWsMessage(currentState,
                     [clients |-> <<>>, sent |-> sent, threw |-> FALSE],
                     conn, nMerged, lastOp'.message).threw

(***************************************************************************)
(* C8-C10: the hub.                                                        *)
(***************************************************************************)
BroadcastIsolationStep ==
    Broadcasts > 0 =>
        /\ sseClients' = SelectSeq(sseClients, LAMBDA c : conn[c] # "broken")
        /\ \A c \in Registered :
              IF conn[c] = "broken" THEN sent'[c] = sent[c]
              ELSE /\ Len(sent'[c]) = Len(sent[c]) + Broadcasts
                   /\ SubSeq(sent'[c], 1, Len(sent[c])) = sent[c]
                   /\ sent'[c][Len(sent'[c])].seq = nMerged'
        /\ HandlerRanThrough => ~lastOp'.threw

\* C8: when the write to a registered subscriber fails, a broadcast still
\* writes the event to every other registered subscriber, removes only the
\* failing subscriber from the set, and raises nothing to its caller.
BroadcastIsolation == [][BroadcastIsolationStep]_vars

\* of three registered subscribers one had failed: the update reached the two
\* others and the set lost the failed one alone
BroadcastIsolationWitness ==
    /\ lastOp.op \in {"ws", "replayPoll"}
    /\ ~lastOp.threw
    /\ nMerged > 0
    /\ Len(sseClients) = 2
    /\ \E c \in Clients :
          /\ conn[c] = "broken"
          /\ c \notin Registered
          /\ \A i \in DOMAIN sent[c] : sent[c][i].seq < nMerged
          /\ \A d \in Clients \ {c} :
                /\ d \in Registered
                /\ sent[d] # <<>>
                /\ sent[d][Len(sent[d])].type = "update"
                /\ sent[d][Len(sent[d])].seq = nMerged

\* the position of each "initial" frame among the frames of a subscriber
Initials(frames) == {i \in DOMAIN frames : frames[i].type = "initial"}

\* the step merged an update into the store
MergedUpdate ==
    \/ lastOp'.op \in {"replayPoll", "livePoll", "mqttMessage"}
    \/ lastOp'.op = "ws" /\ lastOp'.message.M # <<>>

RegistrationSnapshotStep ==
    /\ \A c \in Clients :
          (conn[c] = "idle" /\ conn'[c] = "open") =>
              /\ c \in {sseClients'[i] : i \in DOMAIN sseClients'}
              /\ sent'[c] = IF DOMAIN currentState # {}
                            THEN <<[type |-> "initial", data |-> currentState,
                                    seq |-> nMerged]>>
                            ELSE <<>>
    /\ \A c \in Clients : Initials(sent'[c]) \subseteq {1}
    /\ (MergedUpdate /\ currentState' # currentState) =>
          \A c \in Registered :
              conn[c] = "open" => Len(sent'[c]) > Len(sent[c])

\* C9: a subscriber that connects while the store has a key is written one
\* "initial" frame with the whole store, before any update, and one that
\* connects while the store is empty is written none; every later change of
\* the store is written to every subscriber that is registered and sound.
RegistrationSnapshot == [][RegistrationSnapshotStep]_vars

\* the update frames of a subscriber, in the order they were written
UpdateSeqs(frames) ==
    LET updates == SelectSeq(frames, LAMBDA f : f.type = "update")
    IN  [i \in DOMAIN updates |-> updates[i].seq]

\* C10: every subscriber is written the updates in the order in which they
\* were merged into the store: the update numbers of its frames increase.
BroadcastOrdering ==
    \A c \in Clients :
        \A i, j \in DOMAIN UpdateSeqs(sent[c]) :
            i < j => UpdateSeqs(sent[c])[i] < UpdateSeqs(sent[c])[j]

\* one message carried two updates and a subscriber was written both, the
\* first merged first
BroadcastOrderingWitness ==
    /\ lastOp.op = "ws"
    /\ Len(lastOp.message.M) = 2
    /\ \E c \in Registered :
          /\ Len(sent[c]) >= 2
          /\ sent[c][Len(sent[c]) - 1].data = FromEntries(lastOp.message.M[1])
          /\ sent[c][Len(sent[c]) - 1].seq = nMerged - 1
          /\ sent[c][Len(sent[c])].data = FromEntries(lastOp.message.M[2])
          /\ sent[c][Len(sent[c])].seq = nMerged

(***************************************************************************)
(* Native client: the life of connectToF1 of server.js.  The event loop    *)
(* holds the timers that are set and the requests that are awaited.        *)
(***************************************************************************)
Timeout(fn, delay) == [kind |-> "timeout", fn |-> fn, delay |-> delay]

Interval(fn, delay) == [kind |-> "interval", fn |-> fn, delay |-> delay]

Await(fn) == [kind |-> "await", fn |-> fn, delay |-> 0]

\* line 140: the delay of the reconnect after a close
WS_RECONNECT_MS == 5000

\* line 155: the delay of the retry after a failed negotiation
WS_RETRY_MS == 10000

linkVars ==
    <<request, reconnectAttempts, disconnected, buffer, sockets, mqttClient, tokenVars>>

Lifecycle(op) ==
    /\ lastOp' = [op |-> op, before |-> currentState, threw |-> FALSE]
    /\ UNCHANGED <<mode, hubVars, rawState, adapterVars, stopped, linkVars,
                   clockVars,
                   upstream, nMsgs, nMerged>>

\* server.listen's callback, lines 263-269: connectToF1 up to its await
Listen ==
    /\ mode = "native"
    /\ ws = "none"
    /\ pending = {}
    /\ ws' = "negotiating"
    /\ pending' = {Await("negotiate")}
    /\ Lifecycle("listen")
    /\ UNCHANGED <<currentState, storeId, pollInterval, replayInterval>>

\* connectToF1 after `await negotiate()`, lines 70-95 and 148-156: the socket
\* is created with its handlers, or the catch sets the retry timer
Negotiated(ok) ==
    /\ Await("negotiate") \in pending
    /\ ws' = IF ok THEN "connecting" ELSE "failed"
    /\ pending' = (pending \ {Await("negotiate")})
                      \cup IF ok THEN {}
                           ELSE {Timeout("connectToF1", WS_RETRY_MS)}
    /\ Lifecycle("negotiated")
    /\ UNCHANGED <<currentState, storeId, pollInterval, replayInterval>>

\* ws.on("open"), lines 86-89
WsOpen ==
    /\ ws = "connecting"
    /\ ws' = "open"
    /\ Lifecycle("wsOpen")
    /\ UNCHANGED <<currentState, storeId, pollInterval, replayInterval, pending>>

\* how often the socket may close in one behaviour
MaxCloses == 2

\* ws.on("close"), lines 132-141: `currentState = {}` binds a new object;
\* nothing is broadcast
WsClose ==
    /\ ws \in {"connecting", "open"}
    /\ storeId <= MaxCloses
    /\ currentState' = EmptyStore
    /\ storeId' = storeId + 1
    /\ UNCHANGED <<pollInterval, replayInterval>>
    /\ ws' = "closed"
    /\ pending' = pending \cup {Timeout("connectToF1", WS_RECONNECT_MS)}
    /\ Lifecycle("wsClose")

\* a timer of lines 138-141 or 152-155 fires: connectToF1 up to its await
Reconnect ==
    /\ \E timer \in pending :
          /\ timer.kind = "timeout"
          /\ timer.fn = "connectToF1"
          /\ pending' = (pending \ {timer}) \cup {Await("negotiate")}
    /\ ws' = "negotiating"
    /\ Lifecycle("connectToF1")
    /\ UNCHANGED <<currentState, storeId, pollInterval, replayInterval>>

(***************************************************************************)
(* The store and its subscribers while the native client connects, is fed  *)
(* and loses its socket, or the pub/sub client is fed and backfilled.      *)
(***************************************************************************)
MaxSyncMsgs == 2

\* one update, one nested update, one initial payload
SyncMessages ==
    { [M |-> << << <<"a", Num("1")>> >> >>, R |-> <<>>],
      [M |-> << << <<"b", Obj("x" :> Num("1"))>> >> >>, R |-> <<>>],
      [M |-> <<>>, R |-> << <<"r", Obj("x" :> Num("1"))>> >>] }

SyncTopics ==
    { <<"laps", Lap("44", 10, 95, 30, FALSE)>>, <<"race_control", RcMsg(1)>> }

InitSync == InitIn({"native", "mqtt"})

NextSync ==
    \/ \E c \in Clients : MayRegister(c) /\ Register(c)
    \/ Listen
    \/ \E ok \in BOOLEAN : Negotiated(ok)
    \/ WsOpen
    \/ \E message \in SyncMessages :
          ws = "open" /\ nMsgs < MaxSyncMsgs /\ WsMessage(message)
    \/ WsClose
    \/ Reconnect
    \/ StartMQTT /\ UNCHANGED upstream
    \/ \E m \in SyncTopics :
          nMsgs < MaxSyncMsgs + 1 /\ MqttMessage(m[1], m[2]) /\ UNCHANGED upstream
    \/ nMsgs < MaxSyncMsgs + 1 /\ MqttHistorical(<<RcMsg(1)>>, <<>>, <<>>)
                               /\ UNCHANGED upstream

SpecSync == InitSync /\ [][NextSync]_vars

\* a deep merge as a subscriber does it: objects key by key, anything else
\* replaced
RECURSIVE SubscriberMerge(_, _)
SubscriberMerge(target, source) ==
    IF IsPlainObject(target) /\ IsPlainObject(source)
    THEN Obj([key \in DOMAIN target.kids \cup DOMAIN source.kids |->
                 IF key \notin DOMAIN source.kids THEN target.kids[key]
                 ELSE IF key \notin DOMAIN target.kids THEN source.kids[key]
                 ELSE SubscriberMerge(target.kids[key], source.kids[key])])
    ELSE source

\* the document of a subscriber that was written the frames.  The adapters
\* other than the native client broadcast whole top-level values, which
\* replace what the subscriber holds.
RECURSIVE SubscriberDocument(_, _)
SubscriberDocument(doc, frames) ==
    IF frames = <<>> THEN doc
    ELSE LET frame == Head(frames)
             next == IF frame.type = "initial" THEN frame.data
                     ELSE IF mode = "native"
                          THEN SubscriberMerge(Obj(doc), Obj(frame.data)).kids
                          ELSE frame.data @@ doc
         IN  SubscriberDocument(next, Tail(frames))

\* C11: a subscriber that has been connected since it registered and has
\* merged every frame it was written holds a document equal to the store.
SubscriberConsistency ==
    \A c \in Registered :
        conn[c] = "open" => SubscriberDocument(EmptyStore, sent[c]) = currentState

\* C12: the store is cleared in place: the binding `currentState`, which the
\* snapshot, health and debug endpoints read, names the object created at
\* process start for the whole life of the process, so it is the object any
\* adapter was handed.
StoreContainerKept == storeId = 1

(***************************************************************************)
(* Timer-driven adapters: the replay and the poller with their awaits.     *)
(* A start or a poll suspends at its fetch and is resumed by the event     *)
(* loop; stop may run in between.                                          *)
(***************************************************************************)
\* server.js line 291
POLL_INTERVAL_MS == 1000

\* live-polling.js line 11
LIVE_POLL_INTERVAL_MS == 2000

\* a step that publishes nothing
Silent(op) ==
    /\ lastOp' = [op |-> op, before |-> currentState, threw |-> FALSE]
    /\ UNCHANGED <<mode, hubVars, rawState, ws, storeId, pollInterval, replayInterval, linkVars, upstream,
                   nMsgs, nMerged, mqttIsRunning, driverData>>

\* startReplay up to its first await, lines 725-738
StartReplayCall ==
    /\ mode = "replay"
    /\ ~replayStarted
    /\ Await("startReplay") \notin pending
    /\ replayStarted' = TRUE
    /\ stopped' = FALSE
    /\ pending' = pending \cup {Await("startReplay")}
    /\ Silent("startReplayCall")
    /\ UNCHANGED clockVars
    /\ UNCHANGED <<currentState, driverBestLaps, currentSessionKey, isRunning>>

\* startReplay after its awaits, lines 740-787: the snapshot, the interval
\* and the entry of the first pollAndBroadcast; or the catch
StartReplayResume(startingGrid, ok) ==
    /\ Await("startReplay") \in pending
    /\ IF ok
       THEN /\ LET state == buildInitialState(Roster, startingGrid) @@ currentState
               IN  Published(state,
                             broadcastFn(Hub, conn, "initial", state, nMerged),
                             "startReplay", NoData)
            /\ pending' = (pending \ {Await("startReplay")})
                              \cup {Interval("pollAndBroadcast", POLL_INTERVAL_MS)}
                              \cup IF replayStarted THEN {Await("fetchTimeWindow")}
                                   ELSE {}
            /\ UNCHANGED replayStarted
       ELSE /\ replayStarted' = FALSE
            /\ pending' = pending \ {Await("startReplay")}
            /\ lastOp' = [op |-> "startReplayFailed", before |-> currentState,
                          threw |-> TRUE]
            /\ UNCHANGED <<currentState, sseClients, sent, nMsgs>>
    /\ UNCHANGED <<mode, conn, rawState, ws, stopped, storeId, pollInterval, replayInterval, linkVars,
                   clockVars,
                   upstream, nMerged, driverBestLaps, currentSessionKey,
                   isRunning, mqttIsRunning, driverData>>

\* the interval fires: pollAndBroadcast up to its await, lines 791-806
ReplayTick ==
    /\ Interval("pollAndBroadcast", POLL_INTERVAL_MS) \in pending
    /\ replayStarted
    /\ Await("fetchTimeWindow") \notin pending
    /\ pending' = pending \cup {Await("fetchTimeWindow")}
    /\ Silent("replayTick")
    /\ UNCHANGED clockVars
    /\ UNCHANGED <<currentState, stopped, adapterVars>>

\* pollAndBroadcast after `await fetchTimeWindow`, lines 808-860
ReplayPollResume(data, raceSeconds) ==
    /\ Await("fetchTimeWindow") \in pending
    /\ pollAndBroadcast(data, raceSeconds)
    /\ pending' = pending \ {Await("fetchTimeWindow")}
    /\ UNCHANGED <<ws, stopped, storeId, pollInterval, replayInterval, linkVars, clockVars>>

\* stopReplay, lines 864-876
StopReplay ==
    /\ mode = "replay"
    /\ replayStarted' = FALSE
    /\ stopped' = TRUE
    /\ pending' = pending \ {Interval("pollAndBroadcast", POLL_INTERVAL_MS)}
    /\ lastPollTime' = NoTime
    /\ realElapsed' = 0
    /\ Silent("stopReplay")
    /\ UNCHANGED <<inFlight, windows>>
    /\ UNCHANGED <<currentState, driverBestLaps, currentSessionKey, isRunning>>

\* startLivePolling up to its first await, lines 495-515
StartLivePollingCall ==
    /\ mode = "poller"
    /\ ~isRunning
    /\ Await("getCurrentSession") \notin pending
    /\ currentState' = livePollingKeys(currentState)
    /\ stopped' = FALSE
    /\ pending' = pending \cup {Await("getCurrentSession")}
    /\ Silent("startLivePollingCall")
    /\ UNCHANGED clockVars
    /\ UNCHANGED <<replayStarted, driverBestLaps, currentSessionKey, isRunning>>

\* startLivePolling after its awaits, lines 515-545: no session, or the
\* session's key, the drivers, the backfill and the entry of the first poll
StartLivePollingResume(found, drivers, raceControl, teamRadio) ==
    /\ Await("getCurrentSession") \in pending
    /\ IF found
       THEN /\ currentSessionKey' = TRUE
            /\ isRunning' = TRUE
            /\ Published(pollFetchHistoricalData(
                             livePollingInitialState(currentState, drivers),
                             raceControl, teamRadio),
                         Hub, "startLivePolling",
                         [NoData EXCEPT !.raceControl = raceControl,
                                        !.teamRadio = teamRadio])
            /\ pending' = (pending \ {Await("getCurrentSession")})
                              \cup {Await("startLivePolling.pollData")}
       ELSE /\ pending' = pending \ {Await("getCurrentSession")}
            /\ lastOp' = [op |-> "noSession", before |-> currentState,
                          threw |-> FALSE]
            /\ UNCHANGED <<currentState, sseClients, sent, nMsgs,
                           currentSessionKey, isRunning>>
    /\ UNCHANGED <<mode, conn, rawState, ws, stopped, storeId, pollInterval, replayInterval, linkVars,
                   clockVars,
                   upstream, nMerged, replayStarted, driverBestLaps,
                   mqttIsRunning, driverData>>

\* the interval fires: pollData up to its await, lines 98-124
LivePollTick ==
    /\ Interval("pollData", LIVE_POLL_INTERVAL_MS) \in pending
    /\ currentSessionKey
    /\ Await("pollData") \notin pending
    /\ pending' = pending \cup {Await("pollData")}
    /\ Silent("livePollTick")
    /\ UNCHANGED clockVars
    /\ UNCHANGED <<currentState, stopped, adapterVars>>

\* pollData after `await Promise.all`, lines 125-154; the poll that
\* startLivePolling awaits is followed by its setInterval, line 548
LivePollResume(data) ==
    /\ \E poll \in {Await("pollData"), Await("startLivePolling.pollData")} :
          /\ poll \in pending
          /\ pending' = (pending \ {poll})
                            \cup IF poll.fn = "startLivePolling.pollData"
                                 THEN {Interval("pollData", LIVE_POLL_INTERVAL_MS)}
                                 ELSE {}
    /\ pollDataDone(data)
    /\ UNCHANGED <<ws, stopped, storeId, pollInterval, replayInterval, linkVars, clockVars>>

\* stopLivePolling, lines 556-568
StopLivePolling ==
    /\ mode = "poller"
    /\ isRunning' = FALSE
    /\ currentSessionKey' = FALSE
    /\ stopped' = TRUE
    /\ pending' = pending \ {Interval("pollData", LIVE_POLL_INTERVAL_MS)}
    /\ Silent("stopLivePolling")
    /\ UNCHANGED clockVars
    /\ UNCHANGED <<currentState, replayStarted, driverBestLaps>>

(***************************************************************************)
(* The replay and the poller started, polled and stopped in every order,   *)
(* with one subscriber.                                                    *)
(***************************************************************************)
MaxStopSteps == 3

StopData ==
    { NoData, [NoData EXCEPT !.laps = <<Lap("44", 10, 95, 30, FALSE)>>] }

InitStop == InitIn({"replay", "poller"})

NextStop ==
    \/ Register("c1")
    \/ StartReplayCall
    \/ \E ok \in BOOLEAN :
          nMsgs < MaxStopSteps /\ StartReplayResume(NoKids, ok)
    \/ ReplayTick
    \/ \E data \in StopData :
          nMsgs < MaxStopSteps /\ ReplayPollResume(data, ClockSeconds)
                               /\ UNCHANGED upstream
    \/ StopReplay
    \/ StartLivePollingCall
    \/ \E found \in BOOLEAN :
          nMsgs < MaxStopSteps /\ StartLivePollingResume(found, Roster, <<>>, <<>>)
    \/ LivePollTick
    \/ \E data \in StopData :
          nMsgs < MaxStopSteps /\ LivePollResume(data) /\ UNCHANGED upstream
    \/ StopLivePolling

SpecStop == InitStop /\ [][NextStop]_vars

\* the timers that are set
Timers(tasks) == {task \in tasks : task.kind \in {"timeout", "interval"}}

StopCancelsTimerDrivenStep ==
    (stopped /\ stopped') =>
        /\ currentState' = currentState
        /\ \A c \in Clients : conn[c] = "open" => sent'[c] = sent[c]
        /\ Timers(pending') = {}

\* C13: once stopReplay or stopLivePolling has returned, and until the next
\* start, the adapter does not change the store, writes no frame to a
\* subscriber and has no timer set, whatever was in flight at the stop.
StopCancelsTimerDriven == [][StopCancelsTimerDrivenStep]_vars

(***************************************************************************)
(* Relay: the life of one F1DashClient of live-polling.js.                 *)
(***************************************************************************)
Event(fn) == [kind |-> "event", fn |-> fn, delay |-> 0]

\* constructor, lines 601-602, and scheduleReconnect, line 813
MAX_RECONNECT_ATTEMPTS == 10

RECONNECT_DELAY == 5000

BACKOFF_CAP == 5

reconnectDelayLinear(attempts) == RECONNECT_DELAY * attempts

\* line 813: this.reconnectDelay * Math.min(this.reconnectAttempts, 5)
reconnectDelay(attempts) ==
    RECONNECT_DELAY * (IF attempts < BACKOFF_CAP THEN attempts ELSE BACKOFF_CAP)

Relay(op) ==
    /\ lastOp' = [op |-> op, before |-> rawState, threw |-> FALSE]
    /\ UNCHANGED <<mode, storeVars, hubVars, adapterVars, ws, storeId, pollInterval, replayInterval, clockVars,
                   mqttClient, buffer, sockets, tokenVars,
                   upstream, nMsgs, nMerged>>

\* scheduleReconnect, lines 805-823, with the tasks the caller leaves
scheduleReconnect(tasks) ==
    IF reconnectAttempts >= MAX_RECONNECT_ATTEMPTS
    THEN /\ disconnected' = disconnected + 1
         /\ pending' = tasks
         /\ UNCHANGED reconnectAttempts
    ELSE /\ reconnectAttempts' = reconnectAttempts + 1
         /\ pending' = tasks \cup {Timeout("F1DashClient.connect",
                                           reconnectDelay(reconnectAttempts + 1))}
         /\ UNCHANGED disconnected

\* startF1DashClient, lines 846-868, and connect up to its callbacks
DashStart ==
    /\ mode = "relay"
    /\ request = "none"
    /\ ~stopped
    /\ request' = "connecting"
    /\ Relay("dashStart")
    /\ UNCHANGED <<stopped, reconnectAttempts, disconnected, pending>>

\* the response with status 200, lines 625-633
DashConnected ==
    /\ request = "connecting"
    /\ request' = "streaming"
    /\ reconnectAttempts' = 0
    /\ Relay("dashConnected")
    /\ UNCHANGED <<stopped, disconnected, pending>>

\* a failure of the connection: another status (lines 619-623), the
\* request's error (650-654), the response's end or error (637-647)
DashFailed ==
    /\ request \in {"connecting", "streaming"}
    /\ request' = "lost"
    /\ scheduleReconnect(pending)
    /\ Relay("dashFailed")
    /\ UNCHANGED stopped

\* the timer of lines 820-822 fires: connect
DashReconnect ==
    /\ \E timer \in pending :
          /\ timer.kind = "timeout"
          /\ timer.fn = "F1DashClient.connect"
          /\ pending' = pending \ {timer}
    /\ request' = "connecting"
    /\ Relay("dashReconnect")
    /\ UNCHANGED <<stopped, reconnectAttempts, disconnected>>

\* disconnect, lines 825-832 (stopF1DashClient, lines 870-875): the request
\* is destroyed with its handlers attached, and destroying a live request
\* may make it emit "error"
DashDisconnect(raises) ==
    /\ mode = "relay"
    /\ request # "none"
    /\ request' = "none"
    /\ stopped' = TRUE
    /\ pending' = pending \cup IF raises /\ request \in {"connecting", "streaming"}
                               THEN {Event("request.error")}
                               ELSE {}
    /\ Relay("dashDisconnect")
    /\ UNCHANGED <<reconnectAttempts, disconnected>>

\* request.on("error") / res.on("error") for the destroyed request
DashDestroyed ==
    /\ Event("request.error") \in pending
    /\ scheduleReconnect(pending \ {Event("request.error")})
    /\ Relay("dashDestroyed")
    /\ UNCHANGED <<stopped, request>>

(***************************************************************************)
(* Pub/sub client: the life of the connection of mqtt-client.js.           *)
(***************************************************************************)
\* line 604 and line 616
MQTT_RECONNECT_MS == 5000

MQTT_RETRY_MS == 10000

\* process.env: which of the two variables are set
Envs == [OPENF1_USERNAME : BOOLEAN, OPENF1_PASSWORD : BOOLEAN]

\* hasMQTTCredentials, lines 688-690, and the test of startMQTT, line 631
hasMQTTCredentials(env) == env.OPENF1_USERNAME /\ env.OPENF1_PASSWORD

credentialsMissingBoth(env) == ~env.OPENF1_USERNAME /\ ~env.OPENF1_PASSWORD

\* the test of startMQTT, line 631
credentialsMissing(env) == ~env.OPENF1_USERNAME \/ ~env.OPENF1_PASSWORD

\* getAccessToken, line 83: the margin taken off the lifetime, in seconds
TOKEN_MARGIN == 300

\* the expires_in of the tokens the old scenarios are given, in seconds
TOKEN_LIFETIME == 3600

tokenStaleAlways(token, expiry, time) == TRUE

\* ensureValidToken, line 93: the test that makes it call getAccessToken
tokenStale(token, expiry, time) ==
    token = NoToken \/ expiry = NoTime \/ time >= expiry

\* an await that began at the given time
AwaitSince(fn, time) == [kind |-> "await", fn |-> fn, delay |-> 0, since |-> time]

\* what connect waits for at line 551: the token request of getAccessToken
\* (line 67), or the cached token that ensureValidToken returns
connectAwait(token, expiry, time) ==
    IF tokenStale(token, expiry, time) THEN AwaitSince("getAccessToken", time)
    ELSE AwaitSince("ensureValidToken", time)

\* the calls of connect that wait at line 551
Connecting(tasks) ==
    {task \in tasks : /\ task.kind = "await"
                      /\ task.fn \in {"getAccessToken", "ensureValidToken"}}

Mqtt(op) ==
    /\ lastOp' = [op |-> op, before |-> currentState, threw |-> FALSE]
    /\ UNCHANGED <<mode, hubVars, rawState, ws, storeId, pollInterval, replayInterval, clockVars, request,
                   reconnectAttempts, disconnected, buffer, sockets, now, upstream,
                   nMsgs, nMerged,
                   replayStarted, driverBestLaps, currentSessionKey, isRunning>>

\* startMQTT, lines 624-650, up to the await in connect
StartMQTTCall(env) ==
    /\ mode = "mqtt"
    /\ ~mqttIsRunning
    /\ IF ~credentialsMissing(env)
       THEN /\ mqttIsRunning' = TRUE
            /\ currentState' = mqttInitialState(currentState)
            /\ pending' = pending \cup {connectAwait(accessToken, tokenExpiry, now)}
            /\ stopped' = FALSE
       ELSE UNCHANGED <<mqttIsRunning, currentState, pending, stopped>>
    /\ lastOp' = [op |-> "startMQTTCall", env |-> env,
                  returned |-> IF credentialsMissing(env) THEN "false"
                               ELSE "pending",
                  before |-> currentState, threw |-> FALSE]
    /\ UNCHANGED <<mode, hubVars, rawState, ws, storeId, pollInterval, replayInterval, linkVars, clockVars,
                   upstream,
                   nMsgs, nMerged, replayStarted, driverBestLaps,
                   currentSessionKey, isRunning, driverData>>

\* connect after `await ensureValidToken()`, lines 549-609, or its catch,
\* lines 611-618; with the rest of getAccessToken, lines 74-86, when the
\* token was requested: the response is ok and carries expires_in, or is not
MqttToken(ok, expires_in) ==
    /\ \E await \in Connecting(pending) :
          /\ await.fn = "ensureValidToken" => ok
          /\ pending' = (pending \ {await})
                            \cup IF ~ok /\ mqttIsRunning
                                 THEN {Timeout("connect", MQTT_RETRY_MS)}
                                 ELSE {}
          /\ IF ok /\ await.fn = "getAccessToken"
             THEN /\ accessToken' = [issued |-> now, expires_in |-> expires_in]
                  /\ tokenExpiry' = now + (expires_in - TOKEN_MARGIN)
             ELSE UNCHANGED <<accessToken, tokenExpiry>>
    /\ mqttClient' = IF ok THEN "connecting" ELSE mqttClient
    /\ Mqtt("mqttConnect")
    /\ UNCHANGED <<currentState, stopped, mqttIsRunning, driverData>>

MqttConnect(ok) == MqttToken(ok, TOKEN_LIFETIME)

\* client.on("connect"), lines 562-587
MqttConnected ==
    /\ mqttClient = "connecting"
    /\ mqttClient' = "connected"
    /\ Mqtt("mqttConnected")
    /\ UNCHANGED <<currentState, stopped, pending, mqttIsRunning, driverData,
                   accessToken, tokenExpiry>>

\* client.on("close"), lines 595-606, for a connection the broker drops
MqttClosed ==
    /\ mqttClient \in {"connecting", "connected"}
    /\ mqttClient' = "closed"
    /\ pending' = pending \cup IF mqttIsRunning
                               THEN {Timeout("connect", MQTT_RECONNECT_MS)}
                               ELSE {}
    /\ Mqtt("mqttClosed")
    /\ UNCHANGED <<currentState, stopped, mqttIsRunning, driverData, accessToken,
                   tokenExpiry>>

\* a timer of line 600 or line 616 fires: connect up to its await; the
\* timer of line 600 sets `accessToken = null` first (line 602)
MqttReconnect ==
    /\ \E timer \in pending :
          /\ timer.kind = "timeout"
          /\ timer.fn = "connect"
          /\ accessToken' = IF timer.delay = MQTT_RECONNECT_MS THEN NoToken
                            ELSE accessToken
          /\ pending' = (pending \ {timer})
                            \cup {connectAwait(accessToken', tokenExpiry, now)}
    /\ Mqtt("mqttReconnect")
    /\ UNCHANGED <<currentState, stopped, mqttClient, mqttIsRunning, driverData,
                   tokenExpiry>>

\* client.on("message", processMessage) on a connected client
MqttDeliver(topicName, data) ==
    /\ mqttClient = "connected"
    /\ processMessageDone(topicName, data)
    /\ UNCHANGED lifeVars

\* stopMQTT, lines 657-676: client.end(true) makes the client emit "close"
StopMQTT ==
    /\ mode = "mqtt"
    /\ mqttIsRunning' = FALSE
    /\ stopped' = TRUE
    /\ mqttClient' = "none"
    /\ driverData' = NoKids
    /\ pending' = {task \in pending : ~(task.kind = "timeout" /\ task.fn = "connect")}
                      \cup IF mqttClient \in {"connecting", "connected"}
                           THEN {Event("client.close")}
                           ELSE {}
    /\ accessToken' = NoToken
    /\ tokenExpiry' = NoTime
    /\ Mqtt("stopMQTT")
    /\ UNCHANGED currentState

\* client.on("close"), lines 595-606, for the client that stopMQTT ended
MqttEnded ==
    /\ Event("client.close") \in pending
    /\ pending' = (pending \ {Event("client.close")})
                      \cup IF mqttIsRunning
                           THEN {Timeout("connect", MQTT_RECONNECT_MS)}
                           ELSE {}
    /\ Mqtt("mqttEnded")
    /\ UNCHANGED <<currentState, stopped, mqttClient, mqttIsRunning, driverData,
                   accessToken, tokenExpiry>>

(***************************************************************************)
(* The relay and the pub/sub client connected, dropped, fed and stopped    *)
(* in every order.                                                         *)
(***************************************************************************)
MaxLinkMsgs == 2

LinkUpdates == { << <<"a", Num("1")>> >>, << <<"b", Obj("x" :> Num("1"))>> >> }

InitLink == InitIn({"relay", "mqtt"})

NextLink ==
    \/ DashStart
    \/ DashConnected
    \/ DashFailed
    \/ DashReconnect
    \/ \E raises \in BOOLEAN : DashDisconnect(raises)
    \/ DashDestroyed
    \/ \E data \in LinkUpdates :
          request = "streaming" /\ nMsgs < MaxLinkMsgs /\ DashUpdate(data)
    \/ \E env \in Envs : StartMQTTCall(env)
    \/ \E ok \in BOOLEAN : MqttConnect(ok)
    \/ MqttConnected
    \/ MqttClosed
    \/ MqttReconnect
    \/ \E m \in SyncTopics :
          nMsgs < MaxLinkMsgs /\ MqttDeliver(m[1], m[2]) /\ UNCHANGED upstream
    \/ StopMQTT
    \/ MqttEnded

SpecLink == InitLink /\ [][NextLink]_vars

StopCancelsConnectionDrivenStep ==
    (stopped /\ stopped') =>
        /\ Timers(pending') \subseteq Timers(pending)
        /\ request' = "connecting" => request = "connecting"
        /\ mqttClient' = "connecting" => mqttClient = "connecting"
        /\ currentState' = currentState
        /\ rawState' = rawState
        /\ lastOp'.op \notin {"dash", "mqttMessage"}

\* C14: once the relay's disconnect or stopMQTT has returned, and until the
\* next start, the adapter opens no connection, sets no reconnect timer and
\* delivers no state or update, whatever was pending at the stop.
StopCancelsConnectionDriven == [][StopCancelsConnectionDrivenStep]_vars

(***************************************************************************)
(* The live clients that server.js and the relay start, against an         *)
(* upstream that may refuse, drop or answer; every timer that is set       *)
(* fires and every request that is awaited settles.                        *)
(***************************************************************************)
MaxFailoverMsgs == 2

\* the initial payload of a session that is over, of one that is running,
\* and an update
FailoverMessages ==
    { [M |-> <<>>,
       R |-> << <<"SessionStatus", Obj("Status" :> Str("Finalised"))>> >>],
      [M |-> <<>>,
       R |-> << <<"SessionStatus", Obj("Status" :> Str("Started"))>> >>],
      [M |-> << << <<"a", Num("1")>> >> >>, R |-> <<>>] }

InitFailover == InitIn({"native", "relay"})

NextFailover ==
    \/ Listen
    \/ \E ok \in BOOLEAN : Negotiated(ok)
    \/ WsOpen
    \/ \E message \in FailoverMessages :
          ws = "open" /\ nMsgs < MaxFailoverMsgs /\ WsMessage(message)
    \/ WsClose
    \/ Reconnect
    \/ DashStart
    \/ DashConnected
    \/ DashFailed
    \/ DashReconnect
    \/ \E data \in LinkUpdates :
          request = "streaming" /\ nMsgs < MaxFailoverMsgs /\ DashUpdate(data)

SpecFailover ==
    InitFailover /\ [][NextFailover]_vars /\ WF_vars(NextFailover)

\* C15: when the native client cannot connect, or the relay has used up its
\* reconnect attempts, the replay is started.
FailoverTerminal ==
    /\ (mode = "native" /\ ws = "failed") ~> (ws = "open" \/ replayStarted)
    /\ (disconnected > 0) ~> replayStarted

\* the initial payload tells that the session is over
NoLiveSession(R) ==
    \E i \in DOMAIN R :
        R[i] = <<"SessionStatus", Obj("Status" :> Str("Finalised"))>>

NativeHandoffStep ==
    /\ (lastOp'.op = "ws" /\ NoLiveSession(lastOp'.message.R)) => replayStarted'
    /\ (lastOp'.op = "connectToF1") => ~replayStarted
    /\ (lastOp'.op = "wsClose" /\ ~replayStarted) =>
          /\ Timers(pending') = Timers(pending)
                                    \cup {Timeout("connectToF1", WS_RECONNECT_MS)}
          /\ Timeout("connectToF1", WS_RECONNECT_MS) \notin pending

\* C16: an initial payload that shows no live session makes the native
\* client start the replay; once the replay runs the client does not
\* reconnect; any other close of the socket sets one reconnect timer of the
\* fixed delay.
NativeHandoff == [][NativeHandoffStep]_vars

\* the step handled a failure of the relay's connection
RelayFailure == lastOp'.op \in {"dashFailed", "dashDestroyed"}

\* the reconnect timers a step has set
TimersSet == Timers(pending') \ Timers(pending)

\* what every step of the relay keeps apart from the delay it chooses
ReconnectBudgetStep ==
    /\ (RelayFailure /\ reconnectAttempts < MAX_RECONNECT_ATTEMPTS) =>
          /\ reconnectAttempts' = reconnectAttempts + 1
          /\ Cardinality(TimersSet) = 1
          /\ \A timer \in TimersSet : timer.fn = "F1DashClient.connect"
          /\ disconnected' = disconnected
    /\ (RelayFailure /\ reconnectAttempts >= MAX_RECONNECT_ATTEMPTS) =>
          /\ TimersSet = {}
          /\ disconnected' = disconnected + 1
          /\ reconnectAttempts' = reconnectAttempts
    /\ lastOp'.op = "dashConnected" => reconnectAttempts' = 0
    /\ disconnected' <= 1

ReconnectPolicyLinearStep ==
    /\ ReconnectBudgetStep
    /\ RelayFailure =>
          \A timer \in TimersSet : timer.delay = RECONNECT_DELAY * reconnectAttempts'

ReconnectPolicyStep ==
    /\ ReconnectBudgetStep
    /\ RelayFailure =>
          \A timer \in TimersSet :
              timer.delay = IF reconnectAttempts' <= BACKOFF_CAP
                            THEN RECONNECT_DELAY * reconnectAttempts'
                            ELSE RECONNECT_DELAY * BACKOFF_CAP

ReplayDisciplines ==
    {"positions", "intervals", "laps", "locations", "raceControl", "teamRadio"}

PollerDisciplines == ReplayDisciplines \cup {"stints"}

fetchJSONUnchecked(response) == response.body

\* fetchJSON of server.js, lines 337-349, and of live-polling.js, lines
\* 27-36: [] for a status that is not OK and for a rejected fetch
fetchJSON(response) == IF response.ok THEN response.body ELSE <<>>

\* Promise.all(urls.map(fetchJSON)): server.js 377-380, live-polling.js 117-125
fetchAll(responses) == [d \in DOMAIN responses |-> fetchJSON(responses[d])]

MaxCycles == 2

\* what the upstream holds for the n-th request of each discipline
Bodies(n) ==
    [positions |-> <<[driver_number |-> "44", position |-> n + 1, date |-> n + 1]>>,
     intervals |-> <<[driver_number |-> "44", gap_to_leader |-> n + 1,
                      interval |-> n + 1, date |-> n + 1]>>,
     laps |-> <<Lap("44", 10 + n, 90 + n, 30 + n, FALSE)>>,
     locations |-> <<[driver_number |-> "44", x |-> 100 + n, y |-> 200,
                      date |-> n + 1]>>,
     raceControl |-> <<RcMsg(n + 1)>>,
     teamRadio |-> <<RadioMsg(n + 1)>>,
     stints |-> <<[driver_number |-> "44", stint_number |-> n + 1,
                   compound |-> "SOFT", tyre_age_at_start |-> n]>>]

\* the responses of a cycle in which the requests of `failing` fail
Responses(disciplines, n, failing) ==
    [d \in disciplines |-> [ok |-> d \notin failing, body |-> Bodies(n)[d]]]

\* no request fails, or one does
Failures(disciplines) == {{}} \cup {{d} : d \in disciplines}

InitFetch == InitIn({"replay", "poller"})

NextFetch ==
    \/ StartReplayCall /\ UNCHANGED upstream
    \/ StartReplayResume(NoKids, TRUE) /\ UNCHANGED upstream
    \/ ReplayTick
    \/ \E failing \in Failures(ReplayDisciplines) :
          LET responses == Responses(ReplayDisciplines, nMsgs, failing)
          IN  /\ nMsgs < MaxCycles + 1
              /\ ReplayPollResume(fetchAll(responses), ClockSeconds)
              /\ upstream' = responses
    \/ StartLivePollingCall
    \/ StartLivePollingResume(TRUE, Roster, <<>>, <<>>) /\ UNCHANGED upstream
    \/ LivePollTick
    \/ \E failing \in Failures(PollerDisciplines) :
          LET responses == Responses(PollerDisciplines, nMsgs, failing)
          IN  /\ nMsgs < MaxCycles + 1
              /\ LivePollResume(fetchAll(responses))
              /\ upstream' = responses

SpecFetch == InitFetch /\ [][NextFetch]_vars

\* the value of a field of a driver's timing line, if there is one
FieldAt(state, num, field) ==
    IF Has(state, "TimingData") /\ Has(state.TimingData.Lines, num)
          /\ field \in DOMAIN state.TimingData.Lines[num]
    THEN <<state.TimingData.Lines[num][field]>>
    ELSE <<>>

LinesKept(before, after, fields) ==
    \A num \in {"44", "1", "63"}, field \in fields :
        FieldAt(after, num, field) = FieldAt(before, num, field)

KeysKept(before, after, keys) ==
    \A key \in keys :
        /\ key \in DOMAIN after <=> key \in DOMAIN before
        /\ key \in DOMAIN before => after[key] = before[key]

\* the fields that the records of a discipline are written to
Kept(before, after, d) ==
    CASE d = "positions" -> LinesKept(before, after, {"Line", "Position"})
      [] d = "intervals" ->
            LinesKept(before, after, {"GapToLeader", "IntervalToPositionAhead"})
      [] d = "laps" ->
            /\ LinesKept(before, after,
                         {"NumberOfLaps", "LastLapTime", "BestLapTime", "Sectors",
                          "InPit", "PitOut"})
            /\ KeysKept(before, after, {"LapCount"})
      [] d = "stints" -> LinesKept(before, after, {"Stints", "NumberOfPitStops"})
      [] d = "locations" -> KeysKept(before, after, {"Position"})
      [] d = "raceControl" ->
            KeysKept(before, after, {"RaceControlMessages", "TrackStatus"})
      [] d = "teamRadio" -> KeysKept(before, after, {"TeamRadio"})

\* the adapter runs, its interval is set and no request is in flight
CycleOver(running, fn, delay) ==
    /\ running
    /\ Interval(fn, delay) \in pending
    /\ \A task \in pending : task.kind # "await"

FetchFailureAbsorbedStep ==
    lastOp'.op \in {"replayPoll", "livePoll"} =>
        /\ \A d \in DOMAIN upstream' :
              ~upstream'[d].ok => Kept(currentState, currentState', d)
        /\ mode = "replay" =>
              CycleOver(replayStarted, "pollAndBroadcast", POLL_INTERVAL_MS)'
        /\ mode = "poller" =>
              CycleOver(isRunning /\ currentSessionKey, "pollData",
                        LIVE_POLL_INTERVAL_MS)'

\* C18: in a cycle of the replay or of the poller in which the request of
\* one discipline fails, the fields of that discipline keep their values,
\* the adapter stays running with its interval set, and the next cycle can
\* start.
FetchFailureAbsorbed == [][FetchFailureAbsorbedStep]_vars

\* a cycle lost the request of a discipline whose fields the cycle before
\* had set and whose answer would have changed them, and the cycle wrote
\* what the other requests returned
FetchFailureAbsorbedWitness ==
    /\ lastOp.op \in {"replayPoll", "livePoll"}
    /\ nMsgs = MaxCycles + 1
    /\ \E d \in DOMAIN upstream :
          /\ ~upstream[d].ok
          /\ Bodies(nMsgs - 1)[d] # Bodies(nMsgs - 2)[d]
          /\ lastOp.data[d] = <<>>
          /\ \A e \in DOMAIN upstream \ {d} : lastOp.data[e] = Bodies(nMsgs - 1)[e]
    /\ currentState # lastOp.before

(***************************************************************************)
(* C19: a message whose handling raises.                                   *)
(***************************************************************************)
MalformedDroppedAsUnitStep ==
    (lastOp'.op = "ws" /\ lastOp'.threw) =>
        /\ currentState' = currentState
        /\ sent' = sent
        /\ sseClients' = sseClients
        /\ UNCHANGED <<ws, pending, storeId, pollInterval, replayInterval>>

\* C19: a message of the native feed whose handling raises an error leaves
\* the store as it was before the message, is broadcast to no subscriber
\* and neither closes nor restarts the connection.
MalformedDroppedAsUnit == [][MalformedDroppedAsUnitStep]_vars

(***************************************************************************)
(* C20: startMQTT without credentials.                                     *)
(***************************************************************************)
MissingCredentialsStep ==
    (/\ lastOp'.op = "startMQTTCall"
     /\ ~lastOp'.env.OPENF1_USERNAME \/ ~lastOp'.env.OPENF1_PASSWORD) =>
        /\ lastOp'.returned = "false"
        /\ ~lastOp'.threw
        /\ ~mqttIsRunning'
        /\ ~hasMQTTCredentials(lastOp'.env)
        /\ currentState' = currentState
        /\ mqttClient' = mqttClient
        /\ pending' = pending

\* C20: when OPENF1_USERNAME or OPENF1_PASSWORD is absent, startMQTT returns
\* false and raises nothing, the client is not running, hasMQTTCredentials
\* is false, the store is as before, and no connection and no timer is made.
MissingCredentials == [][MissingCredentialsStep]_vars

\* startMQTT was called with the user name set and the password absent, and
\* returned false
MissingCredentialsWitness ==
    /\ lastOp.op = "startMQTTCall"
    /\ lastOp.env.OPENF1_USERNAME
    /\ ~lastOp.env.OPENF1_PASSWORD
    /\ lastOp.returned = "false"
    /\ ~mqttIsRunning
    /\ mqttClient = "none"
    /\ pending = {}

(***************************************************************************)
(* The pub/sub client against a token endpoint that rejects the            *)
(* configured credentials: getAccessToken raises at every request, lines   *)
(* 72-75, and connect ends in its catch.  Subscribers come and go          *)
(* meanwhile.                                                              *)
(***************************************************************************)
InitAuth == InitIn({"mqtt"})

\* a request of the token, answered or rejected
TokenRequest(ok) == MqttConnect(ok)

NextAuth ==
    \/ \E c \in Clients : MayRegister(c) /\ Register(c)
    \/ \E c \in Clients : Close(c)
    \/ StartMQTTCall([OPENF1_USERNAME |-> TRUE, OPENF1_PASSWORD |-> TRUE])
    \/ TokenRequest(FALSE)
    \/ MqttReconnect

\* the event loop settles every request and fires every timer
SpecAuth ==
    InitAuth /\ [][NextAuth]_vars /\ WF_vars(TokenRequest(FALSE))
             /\ WF_vars(MqttReconnect)

\* C21: when the token endpoint rejects the credentials, the pub/sub client
\* that was started stops asking after finitely many requests: from some
\* point on it is not running, no request is in flight and no retry timer
\* is set.
AuthFailureTerminal ==
    [](mqttIsRunning =>
          <>[](~mqttIsRunning /\ pending = {}))

(***************************************************************************)
(* GET /health of server.js, lines 204-215: the body of the response.      *)
(***************************************************************************)
health ==
    [status |-> "ok",
     clients |-> Len(sseClients),
     hasState |-> Cardinality(DOMAIN currentState) > 0]

\* C22: the response of GET /health has hasState true exactly when the
\* store has a key, clients equal to the number of registered subscribers,
\* and a mode field that names the active adapter.
HealthTruthful ==
    /\ health.hasState <=> currentState # EmptyStore
    /\ health.clients = Cardinality(Registered)
    /\ "mode" \in DOMAIN health
    /\ health.mode = mode

\* what holds of the response: the two fields it has
HealthCounts ==
    /\ health.hasState <=> currentState # EmptyStore
    /\ health.clients = Cardinality(Registered)

(***************************************************************************)
(* The replay with its clock.  Time is counted in seconds: REPLAY_SPEED is *)
(* 1, raceStartTime is second 0 of the race, and realElapsed is what       *)
(* `Date.now() - replayStartRealTime` gives when a tick reads it.  A       *)
(* window is [windowStart, windowEnd] as pollAndBroadcast hands it to      *)
(* fetchTimeWindow.                                                        *)
(***************************************************************************)
MaxElapsed == 4

\* what a step of the replay's clock leaves alone
Clocked ==
    UNCHANGED <<mode, conn, rawState, ws, stopped, storeId, pollInterval, replayInterval, linkVars, upstream,
                currentSessionKey, isRunning, mqttIsRunning, driverData>>

\* startReplay after its awaits, lines 740-776: the snapshot, the clock, the
\* interval; the first pollAndBroadcast, line 782, returns at line 806
\* because no second has elapsed
ReplayStarted ==
    /\ Await("startReplay") \in pending
    /\ LET state == buildInitialState(Roster, NoKids) @@ currentState
       IN  Published(state, broadcastFn(Hub, conn, "initial", state, nMerged),
                     "startReplay", NoData)
    /\ realElapsed' = 0
    /\ lastPollTime' = 0
    /\ pending' = (pending \ {Await("startReplay")})
                      \cup {Interval("pollAndBroadcast", POLL_INTERVAL_MS)}
    /\ Clocked
    /\ UNCHANGED <<inFlight, windows, nMerged, replayStarted, driverBestLaps>>

\* the interval fires dt seconds after the tick before: pollAndBroadcast up
\* to its await, lines 791-809
ReplayTickAt(dt) ==
    /\ Interval("pollAndBroadcast", POLL_INTERVAL_MS) \in pending
    /\ replayStarted
    /\ realElapsed + dt <= MaxElapsed
    /\ realElapsed' = realElapsed + dt
    /\ LET window == [windowStart |-> lastPollTime, windowEnd |-> realElapsed']
       IN  IF window.windowEnd <= window.windowStart
           THEN UNCHANGED <<inFlight, windows>>
           ELSE /\ inFlight' = inFlight \cup {window}
                /\ windows' = Append(windows, window)
    /\ lastOp' = [op |-> "replayTick", before |-> currentState, threw |-> FALSE]
    /\ Clocked
    /\ UNCHANGED <<currentState, hubVars, nMsgs, nMerged, pending, lastPollTime,
                   replayStarted, driverBestLaps>>

\* the records of the upstream that a window returns
WindowData(window) ==
    IF window.windowEnd % 2 = 0
    THEN [NoData EXCEPT !.laps = <<Lap("44", 10 + window.windowEnd, 95, 30, FALSE)>>]
    ELSE NoData

\* the fetch of a window resolves: pollAndBroadcast after its await, lines
\* 811-860
ReplayFetched(window) ==
    /\ window \in inFlight
    /\ pollAndBroadcast(WindowData(window), window.windowEnd)
    /\ lastPollTime' = window.windowEnd
    /\ inFlight' = inFlight \ {window}
    /\ UNCHANGED <<ws, stopped, storeId, pollInterval, replayInterval, linkVars, upstream, pending,
                   realElapsed, windows>>

InitClock == InitIn({"replay"})

NextClock ==
    \/ Register("c1")
    \/ StartReplayCall
    \/ ReplayStarted
    \/ \E dt \in {1, 2} : ReplayTickAt(dt)
    \/ \E window \in inFlight : ReplayFetched(window)

SpecClock == InitClock /\ [][NextClock]_vars

ReplayWindowsDisjointStep ==
    /\ \A i \in 1..(Len(windows') - 1) :
          windows'[i + 1].windowStart = windows'[i].windowEnd
    /\ lastPollTime' >= lastPollTime

\* C23: the windows that the ticks of a replay fetch are disjoint and
\* contiguous, each starting where the one before it ended, also when a
\* fetch is in flight while the next tick fires, and lastPollTime never
\* decreases.
ReplayWindowsDisjoint == [][ReplayWindowsDisjointStep]_vars

\* race time in seconds of an ExtrapolatedClock.Remaining
RemainingSeconds(clock) ==
    clock.Remaining[1] * 3600 + clock.Remaining[2] * 60 + clock.Remaining[3]

\* the frames a step wrote to a subscriber
Written(c) == SubSeq(sent'[c], Len(sent[c]) + 1, Len(sent'[c]))

ReplayClockWrittenStep ==
    lastOp'.op = "replayPoll" =>
        /\ Has(currentState', "ExtrapolatedClock")
        /\ \A c \in Registered :
              conn[c] = "open" =>
                  /\ Len(Written(c)) = 1
                  /\ Written(c)[1].type = "update"
                  /\ Written(c)[1].data.ExtrapolatedClock
                        = currentState'.ExtrapolatedClock

ReplayClockCountdownStep ==
    /\ ReplayClockWrittenStep
    /\ (lastOp'.op = "replayPoll" /\ nMerged > 0) =>
          RemainingSeconds(currentState'.ExtrapolatedClock)
              <= RemainingSeconds(currentState.ExtrapolatedClock)

\* C24: every tick of the replay that fetches a window writes
\* ExtrapolatedClock and broadcasts it in its update, and Remaining never
\* increases from one broadcast to the next.
ReplayClockCountdown == [][ReplayClockCountdownStep]_vars

\* the part that holds: the clock is written and broadcast by every tick
ReplayClockWritten == [][ReplayClockWrittenStep]_vars

(***************************************************************************)
(* The poller fed with the same records in every order.                    *)
(***************************************************************************)
MaxOrderedPolls == 2

\* the sequences that hold every record of a set once
Orderings(records) ==
    {batch \in [1..Cardinality(records) -> records] :
        \A i, j \in DOMAIN batch : batch[i] = batch[j] => i = j}

OrderedData ==
    { [NoData EXCEPT !.positions = p, !.intervals = i, !.locations = l] :
        p \in Orderings(PositionRecords), i \in Orderings(IntervalRecords),
        l \in Orderings(LocationRecords) }

InitOrdered == InitIn({"poller"})

NextOrdered ==
    \/ StartLivePolling(Roster, <<>>, <<>>) /\ UNCHANGED upstream
    \/ \E data \in OrderedData :
          nMsgs < MaxOrderedPolls + 1 /\ LivePoll(data) /\ UNCHANGED upstream

SpecOrdered == InitOrdered /\ [][NextOrdered]_vars

\* the drivers of a batch, and the record of a driver with the greatest
\* timestamp
DriversOf(batch) == {batch[i].driver_number : i \in DOMAIN batch}

Newest(batch, num) ==
    CHOOSE r \in {batch[i] : i \in DOMAIN batch} :
        /\ r.driver_number = num
        /\ \A i \in DOMAIN batch :
              batch[i].driver_number = num => batch[i].date <= r.date

NewestRecordAppliedStep ==
    lastOp'.op = "livePoll" =>
        LET data == lastOp'.data
            lines == currentState'.TimingData.Lines
        IN  /\ \A num \in DriversOf(data.positions) :
                  lines[num].Position
                      = NumText(Newest(data.positions, num).position)
            /\ \A num \in DriversOf(data.intervals) :
                  LET r == Newest(data.intervals, num)
                  IN  /\ lines[num].GapToLeader
                            = (IF r.gap_to_leader = NullNum THEN EmptyText
                               ELSE NumText(r.gap_to_leader))
                      /\ lines[num].IntervalToPositionAhead.Value
                            = (IF r.interval = NullNum THEN EmptyText
                               ELSE NumText(r.interval))
            /\ \A num \in DriversOf(data.locations) :
                  LET r == Newest(data.locations, num)
                  IN  currentState'.Position.Position[num]
                          = [X |-> r.x, Y |-> r.y]

\* C25: after a poll, the position, the gap and interval, and the location
\* stored for a driver are those of the record of the batch with the
\* greatest timestamp for that driver, in whatever order the batch holds
\* its records.
NewestRecordApplied == [][NewestRecordAppliedStep]_vars

\* a poll whose batches held an older record of a driver after the newest
\* one; the store holds the newest
NewestRecordAppliedWitness ==
    /\ lastOp.op = "livePoll"
    /\ \A batch \in {lastOp.data.positions, lastOp.data.intervals,
                     lastOp.data.locations} :
          \E i, j \in DOMAIN batch :
              /\ i < j
              /\ batch[i].driver_number = "44"
              /\ batch[j].driver_number = "44"
              /\ batch[j].date < batch[i].date
    /\ currentState.TimingData.Lines["44"].Position = NumText(1)
    /\ currentState.TimingData.Lines["44"].GapToLeader = NumText(0)
    /\ currentState.Position.Position["44"] = [X |-> 100, Y |-> 200]

(***************************************************************************)
(* The three adapters that build timing lines from OpenF1 records, fed     *)
(* one record at a time.                                                   *)
(***************************************************************************)
MaxLineMsgs == 4

\* one record of each discipline that is written to a timing line
LineTopics ==
    { <<"position", [driver_number |-> "44", position |-> 2, date |-> 1]>>,
      <<"position", [driver_number |-> "1", position |-> 1, date |-> 1]>>,
      <<"intervals", [driver_number |-> "44", gap_to_leader |-> 7,
                      interval |-> 3, date |-> 1]>>,
      <<"laps", Lap("44", 11, 95, 30, FALSE)>>,
      <<"stints", [driver_number |-> "44", stint_number |-> 2,
                   compound |-> "SOFT", tyre_age_at_start |-> 3]>> }

InitLines == InitIn({"replay", "poller", "mqtt"})

NextLines ==
    \/ StartReplay(NoKids) /\ UNCHANGED upstream
    \/ \E m \in LineTopics :
          /\ nMsgs < MaxLineMsgs + 1
          /\ m[1] # "stints"
          /\ ReplayPoll(TopicData(m[1], m[2]), ClockSeconds)
          /\ UNCHANGED upstream
    \/ StartLivePolling(Roster, <<>>, <<>>) /\ UNCHANGED upstream
    \/ \E m \in LineTopics :
          /\ nMsgs < MaxLineMsgs + 1
          /\ LivePoll(TopicData(m[1], m[2]))
          /\ UNCHANGED upstream
    \/ nMsgs < MaxLineMsgs /\ StartMQTT /\ UNCHANGED upstream
    \/ \E m \in LineTopics :
          /\ nMsgs < MaxLineMsgs + 1
          /\ MqttMessage(m[1], m[2])
          /\ UNCHANGED upstream
    \/ mqttIsRunning /\ StopMQTT

SpecLines == InitLines /\ [][NextLines]_vars

\* the fields of a timing line that belong to a discipline
FieldsOf(discipline) ==
    CASE discipline = "positions" -> {"Line", "Position"}
      [] discipline = "intervals" -> {"GapToLeader", "IntervalToPositionAhead"}
      [] discipline = "laps" ->
            {"NumberOfLaps", "LastLapTime", "BestLapTime", "Sectors", "InPit",
             "PitOut"}
      [] discipline = "stints" -> {"Stints", "NumberOfPitStops"}
      [] OTHER -> {}

LinesIn(state) ==
    IF Has(state, "TimingData") THEN state.TimingData.Lines ELSE NoKids

\* the step kept every field of every line but those of the discipline on
\* the line of the driver
OnlyFieldsOf(discipline, num) ==
    \A n \in DOMAIN LinesIn(currentState) :
        /\ n \in DOMAIN LinesIn(currentState')
        /\ \A field \in DOMAIN LinesIn(currentState)[n] :
              (n # num \/ field \notin FieldsOf(discipline)) =>
                  /\ field \in DOMAIN LinesIn(currentState')[n]
                  /\ LinesIn(currentState')[n][field]
                        = LinesIn(currentState)[n][field]

PerDisciplineStep ==
    lastOp'.op \in {"replayPoll", "livePoll", "mqttMessage"} =>
        \A discipline \in {"positions", "intervals", "laps", "stints"} :
            lastOp'.data[discipline] # <<>> =>
                OnlyFieldsOf(discipline, lastOp'.data[discipline][1].driver_number)

\* C26: in the replay, the poller and the pub/sub client, a position record
\* of a driver changes only the position fields of that driver's timing
\* line, an interval record only the gap and interval fields, a lap record
\* only the lap, sector and pit fields, a stint record only the tyre fields;
\* every other field and every other line keeps its value.
PerDiscipline == [][PerDisciplineStep]_vars

\* the same for the replay and the poller alone
PerDisciplineRest == [][mode # "mqtt" => PerDisciplineStep]_vars

\* and for a pub/sub client that has not been stopped
PerDisciplineOneRun == [][~stopped => PerDisciplineStep]_vars

(***************************************************************************)
(* The client hook: processData of useF1DataSSE.ts, lines 815-1062, for    *)
(* the fields of a driver that come from the timing line alone.  Both      *)
(* listeners, lines 1199-1208, hand the parsed event to processData.       *)
(***************************************************************************)
\* a || b for strings
OrText(a, b) == IF a = EmptyText THEN b ELSE a

\* `existing` when the map has no driver of that number
NoDriver == [gap |-> EmptyText, interval |-> EmptyText, inPit |-> FALSE,
             retired |-> FALSE]

\* the same fields as the line of the store has them
ServerDriver(line) ==
    [gap |-> FieldOr(line, "GapToLeader", EmptyText),
     interval |-> FieldOr(FieldOr(line, "IntervalToPositionAhead", NoKids),
                          "Value", EmptyText),
     inPit |-> FieldOr(line, "InPit", FALSE),
     retired |-> FieldOr(line, "Retired", FALSE)]

\* lines 1005-1055: gap, interval, inPit, retired of the driver record
clientDriver(existing, line) ==
    [gap |-> OrText(FieldOr(line, "GapToLeader", EmptyText), existing.gap),
     interval |-> OrText(FieldOr(FieldOr(line, "IntervalToPositionAhead", NoKids),
                                 "Value", EmptyText),
                         existing.interval),
     inPit |-> FieldOr(line, "InPit", FALSE) \/ existing.inPit,
     retired |-> FieldOr(line, "Retired", FALSE) \/ existing.retired]

\* lines 815-1062: the drivers after an event with the given data
clientProcessData(drivers, data) ==
    LET timingData == IF Has(data, "TimingData") /\ Has(data.TimingData, "Lines")
                      THEN data.TimingData.Lines ELSE NoKids
    IN  [num \in (DOMAIN drivers) \cup (DOMAIN timingData) |->
            IF Has(timingData, num)
            THEN clientDriver(IF Has(drivers, num) THEN drivers[num] ELSE NoDriver,
                              timingData[num])
            ELSE drivers[num]]

\* the drivers of a client that has received the frames
RECURSIVE ClientDrivers(_)
ClientDrivers(frames) ==
    IF frames = <<>> THEN NoKids
    ELSE clientProcessData(ClientDrivers(SubSeq(frames, 1, Len(frames) - 1)),
                           frames[Len(frames)].data)

MaxClientMsgs == 3

\* a gap, the same driver in the lead; a pit-out lap, the lap after it
ClientData ==
    { [NoData EXCEPT !.intervals = <<[driver_number |-> "1", gap_to_leader |-> 7,
                                      interval |-> 3, date |-> 1]>>],
      [NoData EXCEPT !.intervals = <<[driver_number |-> "1", gap_to_leader |-> 0,
                                      interval |-> 0, date |-> 2]>>],
      [NoData EXCEPT !.laps = <<Lap("44", 10, 95, 30, TRUE)>>],
      [NoData EXCEPT !.laps = <<Lap("44", 11, 95, 30, FALSE)>>] }

InitClient == InitIn({"replay"})

NextClient ==
    \/ Register("c1")
    \/ StartReplay(NoKids) /\ UNCHANGED upstream
    \/ \E data \in ClientData :
          /\ nMsgs < MaxClientMsgs + 1
          /\ ReplayPoll(data, ClockSeconds)
          /\ UNCHANGED upstream

SpecClient == InitClient /\ [][NextClient]_vars

\* C27: after any sequence of `initial` and `update` events, the gap, the
\* interval, the pit flag and the retired flag that the client hook holds
\* for a driver equal those of the driver's line in the server's store,
\* also after an update that sets one of them to a falsy value.
ClientEqualsServer ==
    \A c \in Registered :
        conn[c] = "open" =>
            LET drivers == ClientDrivers(sent[c])
            IN  \A num \in DOMAIN drivers :
                    drivers[num] =
                        ServerDriver(currentState.TimingData.Lines[num])

(***************************************************************************)
(* The keepalive of a subscriber: /api/sse of server.js, lines 236-245.    *)
(* The handler sets the interval when it registers the subscriber and      *)
(* req.on("close") clears it; nothing else touches it, broadcastSSE's      *)
(* catch included.                                                         *)
(***************************************************************************)
KEEPALIVE_MS == 15000

keepAliveSetOnce(connOf, c) == connOf[c] # "idle"

\* the interval of the subscriber is set
keepAliveSet(connOf, c) == connOf[c] \in {"open", "broken"}

MaxBeats == 2

\* the interval fires, lines 237-239: res.write(": keepalive\n\n"), outside
\* any try/catch
KeepAlive(c) ==
    /\ keepAliveSet(conn, c)
    /\ Len(sent[c]) < MaxBeats + 2
    /\ sent' = [sent EXCEPT ![c] =
                   IF WriteThrows(conn, c) THEN @
                   ELSE Append(@, [type |-> "keepalive", data |-> NoKids,
                                   seq |-> nMerged])]
    /\ lastOp' = [op |-> "keepAlive", client |-> c, before |-> currentState,
                  threw |-> WriteThrows(conn, c)]
    /\ UNCHANGED <<lifeVars, mode, currentState, sseClients, conn, rawState,
                   nMsgs, nMerged, adapterVars, upstream>>

MaxAliveMsgs == 2

AliveClients == {"c1", "c2"}

InitAlive == InitIn({"native"})

NextAlive ==
    \/ \E c \in AliveClients : MayRegister(c) /\ Register(c)
    \/ \E c \in AliveClients : Break(c)
    \/ \E c \in AliveClients : Close(c)
    \/ \E c \in AliveClients : KeepAlive(c)
    \/ nMsgs < MaxAliveMsgs
          /\ WsMessage([M |-> << << <<"a", Num("1")>> >> >>, R |-> <<>>])

SpecAlive == InitAlive /\ [][NextAlive]_vars

SubscriberCloseStep ==
    \A c \in Clients :
        /\ (lastOp'.op = "close" /\ lastOp'.client = c) =>
              /\ c \notin {sseClients'[i] : i \in DOMAIN sseClients'}
              /\ \A d \in Registered \ {c} :
                    d \in {sseClients'[i] : i \in DOMAIN sseClients'}
              /\ sent' = sent
              /\ ~lastOp'.threw
        /\ conn[c] = "closed" =>
              /\ sent'[c] = sent[c]
              /\ ~(lastOp'.op = "keepAlive" /\ lastOp'.client = c)
              /\ lastOp'.op = "ws" => ~lastOp'.threw
        /\ (lastOp'.op = "keepAlive" /\ lastOp'.client = c /\ conn[c] = "open") =>
              /\ c \in Registered
              /\ sent'[c] = Append(sent[c], [type |-> "keepalive", data |-> NoKids,
                                             seq |-> nMerged])
              /\ \A d \in Clients \ {c} : sent'[d] = sent[d]
              /\ ~lastOp'.threw

MaxTrackMsgs == 3

TrackKinds == {"green", "red", "sc", "sector"}

\* a race-control record of the feed: a track-scope flag, a safety-car
\* event, or a sector flag, which is neither
TrackMsg(kind, date) ==
    [date |-> date,
     message |-> CASE kind = "green" -> "TRACK CLEAR"
                   [] kind = "red" -> "RED FLAG"
                   [] kind = "sc" -> "SAFETY CAR DEPLOYED"
                   [] OTHER -> "YELLOW IN TRACK SECTOR 3",
     category |-> IF kind = "sc" THEN "SafetyCar" ELSE "Flag",
     flag |-> CASE kind = "green" -> "GREEN"
                [] kind = "red" -> "RED"
                [] kind = "sc" -> ""
                [] OTHER -> "YELLOW",
     scope |-> CASE kind \in {"green", "red"} -> "Track"
                 [] kind = "sc" -> ""
                 [] OTHER -> "Sector",
     sector |-> IF kind = "sector" THEN 3 ELSE 0,
     driver_number |-> 0,
     lap_number |-> 0]

\* the batches of one or two records that follow the n records published
TrackBatches(n) ==
    {<<TrackMsg(a, n + 1)>> : a \in TrackKinds}
        \cup {<<TrackMsg(a, n + 1), TrackMsg(b, n + 2)>> : a, b \in TrackKinds}

InitTrack == InitIn({"replay", "poller", "mqtt"})

NextTrack ==
    \/ StartReplay(NoKids) /\ UNCHANGED upstream
    \/ \E batch \in TrackBatches(upstream.rc) :
            /\ upstream.rc + Len(batch) <= MaxTrackMsgs
            /\ upstream' = [upstream EXCEPT !.rc = @ + Len(batch)]
            /\ ReplayPoll([NoData EXCEPT !.raceControl = batch], ClockSeconds)
    \/ StartLivePolling(Roster, <<>>, <<>>) /\ UNCHANGED upstream
    \/ \E batch \in TrackBatches(upstream.rc) :
            /\ upstream.rc + Len(batch) <= MaxTrackMsgs
            /\ upstream' = [upstream EXCEPT !.rc = @ + Len(batch)]
            /\ LivePoll([NoData EXCEPT !.raceControl = batch])
    \/ StartMQTT /\ UNCHANGED upstream
    \/ \E a \in TrackKinds :
            /\ upstream.rc < MaxTrackMsgs
            /\ upstream' = [upstream EXCEPT !.rc = @ + 1]
            /\ MqttMessage("race_control", TrackMsg(a, upstream.rc + 1))

SpecTrack == InitTrack /\ [][NextTrack]_vars

\* the entry is a track-scope flag or a safety-car event
TrackEvent(entry) ==
    \/ entry.Flag # "null" /\ entry.Scope = "Track"
    \/ entry.Category = "SafetyCar"

\* the status derived from a track event
StatusOf(entry) ==
    IF entry.Category = "SafetyCar" THEN SafetyCarStatus(entry.Message)[1]
    ELSE FlagStatus(entry.Flag)[1]

\* the last track event of the log, as <<entry>>, or <<>>
LastTrackEvent(log) == FindLast(log, TrackEvent)

FollowsLatest(state) ==
    LastTrackEvent(RcLog(state)) # <<>> =>
        /\ Has(state, "TrackStatus")
        /\ state.TrackStatus = StatusOf(LastTrackEvent(RcLog(state))[1])

\* C29: after any sequence of race-control messages, in one batch or in
\* several, TrackStatus is the status of the last message of the sequence
\* that is a track-scope flag or a safety-car event.
TrackFollowsLatest ==
    /\ Len(RcLog(currentState)) = upstream.rc
    /\ FollowsLatest(currentState)

\* the same for the poller and the pub/sub client alone
TrackFollowsLatestLive == mode \in {"poller", "mqtt"} => TrackFollowsLatest

\* messages that are neither leave TrackStatus as it was
TrackKeptByOthersStep ==
    (/\ Has(currentState, "TrackStatus")
     /\ LastTrackEvent(RcLog(currentState')) = LastTrackEvent(RcLog(currentState)))
        => /\ Has(currentState', "TrackStatus")
           /\ currentState'.TrackStatus = currentState.TrackStatus

TrackKeptByOthers == [][TrackKeptByOthersStep]_vars

(***************************************************************************)
(* Relay: the event-stream text of F1DashClient and its reassembly,        *)
(* live-polling.js 637-640 and 669-710.  A text is a sequence of tokens:   *)
(* the line feed, the blank, the colon, the field names "event" and        *)
(* "data", an event name, and the payloads "1" and "2", which stand for    *)
(* the JSON texts of two updates.  A chunk ends between any two tokens.    *)
(***************************************************************************)
NL == "\n"

WhiteSpace == {" ", NL}

\* String.prototype.split(separator), for a separator that is not empty
RECURSIVE Split(_, _)
Split(text, sep) ==
    LET hits == {i \in 1..(Len(text) - Len(sep) + 1) :
                    SubSeq(text, i, i + Len(sep) - 1) = sep}
    IN  IF hits = {} THEN <<text>>
        ELSE LET i == CHOOSE j \in hits : \A h \in hits : j <= h
             IN  <<SubSeq(text, 1, i - 1)>>
                     \o Split(SubSeq(text, i + Len(sep), Len(text)), sep)

\* String.prototype.trim
RECURSIVE Trim(_)
Trim(text) ==
    IF text = <<>> THEN text
    ELSE IF Head(text) \in WhiteSpace THEN Trim(Tail(text))
    ELSE IF text[Len(text)] \in WhiteSpace
         THEN Trim(SubSeq(text, 1, Len(text) - 1))
    ELSE text

\* line.startsWith(prefix)
StartsWith(line, prefix) ==
    Len(line) >= Len(prefix) /\ SubSeq(line, 1, Len(prefix)) = prefix

EventField == <<"event", ":">>

DataField == <<"data", ":">>

\* processBuffer, lines 682-688: one line of an event
parseLine(acc, line) ==
    IF StartsWith(line, EventField)
    THEN [acc EXCEPT !.eventType =
             Trim(SubSeq(line, Len(EventField) + 1, Len(line)))]
    ELSE IF StartsWith(line, DataField)
    THEN [acc EXCEPT !.data =
             @ \o Trim(SubSeq(line, Len(DataField) + 1, Len(line)))]
    ELSE acc

\* processBuffer, lines 676-693: one event, as <<[eventType, data]>> when
\* handleEvent is called and <<>> when it is not
parseEvent(event) ==
    LET parsed == FoldSeq(parseLine, [eventType |-> <<"message">>, data |-> <<>>],
                          Split(event, <<NL>>))
    IN  IF Trim(event) = <<>> \/ parsed.data = <<>> THEN <<>> ELSE <<parsed>>

RECURSIVE parseEvents(_)
parseEvents(events) ==
    IF events = <<>> THEN <<>>
    ELSE parseEvent(Head(events)) \o parseEvents(Tail(events))

processBufferDropping(text) ==
    LET events == Split(text, <<NL, NL>>)
    IN  [buffer |-> <<>>,
         handled |-> parseEvents(SubSeq(events, 1, Len(events) - 1))]

\* processBuffer, lines 669-695, for this.buffer = text: the buffer it
\* leaves and the events it hands to handleEvent
processBuffer(text) ==
    LET events == Split(text, <<NL, NL>>)
    IN  [buffer |-> events[Len(events)],
         handled |-> parseEvents(SubSeq(events, 1, Len(events) - 1))]

\* JSON.parse(data): the entries of the update, or <<>> when it throws
JSONParse(data) ==
    CASE data = <<"1">> -> << << <<"a", Num("1")>> >> >>
      [] data = <<"2">> -> << << <<"b", Num("2")>> >> >>
      [] OTHER -> <<>>

\* handleEvent, lines 697-710, with handleInitialState and handleUpdate
handleEvent(raw, event) ==
    LET parsed == JSONParse(event.data)
    IN  IF parsed = <<>> THEN raw
        ELSE IF event.eventType = <<"initial">> THEN FromEntries(parsed[1])
        ELSE IF event.eventType = <<"update">>
        THEN dashDeepMerge(Obj(raw), Obj(FromEntries(parsed[1]))).kids
        ELSE raw

MaxLines == 4

\* the lines a stream is made of: an event name, a payload, a payload after
\* a blank, a comment, and the empty line
StreamLines ==
    { <<"event", ":", "update">>, <<"data", ":", "1">>,
      <<"data", ":", " ", "2">>, <<":", "k">>, <<>> }

RECURSIVE JoinLines(_)
JoinLines(lines) ==
    IF lines = <<>> THEN <<>>
    ELSE Head(lines) \o <<NL>> \o JoinLines(Tail(lines))

StreamTexts ==
    {JoinLines(lines) :
        lines \in UNION {[1..n -> StreamLines] : n \in 1..MaxLines}}

Fed == "text" \in DOMAIN upstream

\* this.emit("state", this.rawState) of handleInitialState (line 757) and
\* of handleUpdate (line 785): the states handed to onState, in order
emitsState(event) ==
    /\ JSONParse(event.data) # <<>>
    /\ event.eventType \in {<<"initial">>, <<"update">>}

RECURSIVE statesEmitted(_, _)
statesEmitted(raw, events) ==
    IF events = <<>> THEN <<>>
    ELSE LET next == handleEvent(raw, Head(events))
         IN  (IF emitsState(Head(events)) THEN <<next>> ELSE <<>>)
                 \o statesEmitted(next, Tail(events))

\* the upstream has a text to send over the response of a new connection
Publish(text) ==
    /\ request = "streaming"
    /\ ~Fed \/ lastOp.op = "dashConnected"
    /\ upstream' = [text |-> text, rest |-> text, handled |-> <<>>,
                    connection |-> IF Fed THEN upstream.connection + 1 ELSE 1]
    /\ lastOp' = [op |-> "publish", before |-> rawState, threw |-> FALSE]
    /\ UNCHANGED <<mode, storeVars, hubVars, adapterVars, lifeVars, nMsgs,
                   nMerged>>

\* res.on("data"), lines 637-640, for a chunk of k tokens
OnData(k) ==
    /\ mode = "relay"
    /\ request = "streaming"
    /\ Fed
    /\ k \in 1..Len(upstream.rest)
    /\ LET chunk == SubSeq(upstream.rest, 1, k)
           run == processBuffer(buffer \o chunk)
       IN  /\ buffer' = run.buffer
           /\ rawState' = FoldSeq(handleEvent, rawState, run.handled)
           /\ nMsgs' = nMsgs + Len(run.handled)
           /\ upstream' = [upstream EXCEPT
                             !.rest = SubSeq(@, k + 1, Len(@)),
                             !.handled = @ \o run.handled]
           /\ lastOp' = [op |-> "data", handled |-> run.handled,
                         delivered |-> statesEmitted(rawState, run.handled),
                         before |-> rawState, threw |-> FALSE]
    /\ UNCHANGED <<mode, currentState, hubVars, adapterVars, ws, stopped,
                   request, reconnectAttempts, disconnected, sockets, mqttClient,
                   tokenVars, storeId, pollInterval, replayInterval, pending, clockVars, nMerged>>

InitFrames == InitIn({"relay"})

NextFrames ==
    \/ DashStart
    \/ DashConnected
    \/ \E text \in StreamTexts : Publish(text)
    \/ \E k \in 1..(4 * MaxLines + 1) : OnData(k)

SpecFrames == InitFrames /\ [][NextFrames]_vars

\* the part of the text that has arrived
Arrived == SubSeq(upstream.text, 1, Len(upstream.text) - Len(upstream.rest))

\* text holds the separator of events
HasBlankLine(text) == Len(Split(text, <<NL, NL>>)) > 1

\* C30: however the text is cut into chunks, the events handled so far and
\* the buffer are those of the arrived text handled as one chunk; the
\* buffer is the incomplete tail of the arrived text, and what comes before
\* it ends with a blank line.
ChunkingIndependent ==
    Fed =>
        LET whole == processBuffer(Arrived)
            done == Len(Arrived) - Len(buffer)
        IN  /\ upstream.handled = whole.handled
            /\ buffer = whole.buffer
            /\ rawState = FoldSeq(handleEvent, NoKids, whole.handled)
            /\ ~HasBlankLine(buffer)
            /\ done >= 0
            /\ SubSeq(Arrived, done + 1, Len(Arrived)) = buffer
            /\ done > 0 =>
                  done >= 2 /\ SubSeq(Arrived, done - 1, done) = <<NL, NL>>

\* an update has arrived whole and was handled once, in an earlier chunk;
\* the chunk handled last ended inside the field name of the next event,
\* which waits in the buffer while the rest of the text is on its way
ChunkingIndependentWitness ==
    /\ Fed
    /\ upstream.rest # <<>>
    /\ Len(upstream.handled) = 1
    /\ upstream.handled[1] = [eventType |-> <<"update">>, data |-> <<"1">>]
    /\ "a" \in DOMAIN rawState
    /\ buffer = <<"data">>
    /\ lastOp.op = "data"
    /\ lastOp.handled = <<>>

(***************************************************************************)
(* Relay: the connections of F1DashClient one after another.  On each      *)
(* connection the upstream sends the `initial` event and then `update`     *)
(* events; a connection can fail after any chunk.                          *)
(***************************************************************************)
MaxDrops == 1

Payloads == {"1", "2"}

EventText(name, payload) ==
    <<"event", ":", name, NL, "data", ":", payload, NL, NL>>

\* what the upstream sends on one connection
ConnectionTexts ==
    {EventText("initial", p) \o EventText("update", q) : p, q \in Payloads}

InitRelay == InitIn({"relay"})

NextRelay ==
    \/ DashStart
    \/ DashConnected
    \/ \E text \in ConnectionTexts : Publish(text)
    \/ \E k \in 1..(2 * Len(EventText("initial", "1"))) : OnData(k)
    \/ /\ reconnectAttempts < MaxDrops
       /\ Fed => upstream.connection <= MaxDrops
       /\ DashFailed
    \/ DashReconnect

SpecRelay == InitRelay /\ [][NextRelay]_vars

\* the events of the connection that handleEvent could parse
Parsed(events) == SelectSeq(events, LAMBDA event : JSONParse(event.data) # <<>>)

PayloadOf(event) == FromEntries(JSONParse(event.data)[1])

MergedInto(raw, event) == dashDeepMerge(Obj(raw), Obj(PayloadOf(event))).kids

\* the first event replaces, the following are merged
ReplacedThenMerged(events) ==
    FoldSeq(MergedInto, PayloadOf(Head(events)), Tail(events))

\* C31: on every connection the first event the relay handles replaces its
\* whole state and every later event of the connection is deep-merged into
\* it; each handled event is followed by the delivery of the full state.
RelayReplacesThenMerges ==
    (Fed /\ Parsed(upstream.handled) # <<>>) =>
        /\ rawState = ReplacedThenMerged(Parsed(upstream.handled))
        /\ lastOp.op = "data" =>
              /\ Len(lastOp.delivered) = Len(Parsed(lastOp.handled))
              /\ lastOp.delivered # <<>> =>
                    lastOp.delivered[Len(lastOp.delivered)] = rawState

\* the delivery alone: every event that was parsed is followed by the
\* delivery of the state it left
RelayDelivers ==
    lastOp.op = "data" =>
        /\ Len(lastOp.delivered) = Len(Parsed(lastOp.handled))
        /\ lastOp.delivered # <<>> =>
              lastOp.delivered[Len(lastOp.delivered)] = rawState

(***************************************************************************)
(* Pub/sub client: the token of mqtt-client.js while time passes and the   *)
(* client is started, stopped, dropped and reconnected.                    *)
(***************************************************************************)
MaxNow == 2

\* the expires_in of a token response, in seconds
Lifetimes == {TOKEN_MARGIN + 1, TOKEN_MARGIN + 2}

\* a second passes
Tick ==
    /\ now < MaxNow
    /\ now' = now + 1
    /\ lastOp' = [op |-> "tick", before |-> currentState, threw |-> FALSE]
    /\ UNCHANGED <<mode, storeVars, hubVars, adapterVars, ws, stopped, request,
                   reconnectAttempts, disconnected, buffer, sockets, mqttClient,
                   accessToken, tokenExpiry, storeId, pollInterval, replayInterval, pending, clockVars,
                   upstream, nMsgs, nMerged>>

InitToken == InitIn({"mqtt"})

NextToken ==
    \/ StartMQTTCall([OPENF1_USERNAME |-> TRUE, OPENF1_PASSWORD |-> TRUE])
    \/ \E ok \in BOOLEAN, expires_in \in Lifetimes : MqttToken(ok, expires_in)
    \/ MqttConnected
    \/ MqttClosed
    \/ MqttReconnect
    \/ StopMQTT
    \/ MqttEnded
    \/ Tick

SpecToken == InitToken /\ [][NextToken]_vars

\* the instant from which a token is requested anew
RenewalOf(token) == token.issued + (token.expires_in - TOKEN_MARGIN)

\* the step calls connect, which calls ensureValidToken
CallsConnect ==
    \/ lastOp'.op = "startMQTTCall" /\ lastOp'.returned = "pending"
    \/ lastOp'.op = "mqttReconnect"

\* the step calls connect from the timer that follows a close
ReconnectsAfterClose ==
    /\ lastOp'.op = "mqttReconnect"
    /\ Timeout("connect", MQTT_RECONNECT_MS) \in pending \ pending'

\* the step begins a token request, or an await of the cached token
Begins(fn) ==
    /\ AwaitSince(fn, now) \in pending'
    /\ \A other \in Connecting(pending') \ {AwaitSince(fn, now)} :
          other \in pending

TokenCachingStep ==
    /\ CallsConnect =>
          /\ IF accessToken' = NoToken \/ now >= RenewalOf(accessToken')
             THEN Begins("getAccessToken")
             ELSE Begins("ensureValidToken")
          /\ accessToken' = IF ReconnectsAfterClose THEN NoToken ELSE accessToken
    /\ lastOp'.op = "mqttConnect" =>
          \E await \in Connecting(pending) :
             /\ Connecting(pending') = Connecting(pending) \ {await}
             /\ IF await.fn = "ensureValidToken"
                THEN /\ accessToken' = accessToken
                     /\ mqttClient' = "connecting"
                ELSE \/ accessToken'.issued = now /\ mqttClient' = "connecting"
                     \/ accessToken' = accessToken /\ mqttClient' = mqttClient
    /\ ~CallsConnect => Connecting(pending') \subseteq Connecting(pending)

\* C32: a connect call requests a token exactly when the client has none
\* or the time has reached the token's issue plus its lifetime less 300 s;
\* otherwise ensureValidToken gives the cached token without a request;
\* the reconnect after a close discards the token first.
TokenCaching == [][TokenCachingStep]_vars

\* a retry has found a token that another call had cached and that is not
\* yet due, and has connected with it without a request
TokenCachingWitness ==
    /\ lastOp.op = "mqttConnect"
    /\ accessToken # NoToken
    /\ accessToken.issued < now
    /\ now < RenewalOf(accessToken)
    /\ Connecting(pending) = {}
    /\ mqttClient = "connecting"
    /\ mqttIsRunning

(***************************************************************************)
(* Re-delivery of race-control messages: the poll window of the poller     *)
(* overlaps the previous one (live-polling.js lines 102-121), the broker   *)
(* may deliver a message again, and the historical fetch of the pub/sub    *)
(* client runs after the connect event, when live messages may already     *)
(* have been handled (mqtt-client.js lines 458-469).                       *)
(***************************************************************************)
MaxDeliveries == 3

MaxDates == 2

\* the records the feed has for the session
FeedMsgs == {TrackMsg(kind, date) : kind \in TrackKinds, date \in 1..MaxDates}

\* what one poll or one historical fetch returns: one or two records
FeedBatches == {<<a>> : a \in FeedMsgs} \cup {<<a, b>> : a, b \in FeedMsgs}

\* the call hands n more records to a handler
Delivers(n) ==
    /\ upstream.rc + n <= MaxDeliveries
    /\ upstream' = [upstream EXCEPT !.rc = @ + n]

InitRedeliver == InitIn({"poller", "mqtt"})

NextRedeliver ==
    \/ StartLivePolling(Roster, <<>>, <<>>) /\ UNCHANGED upstream
    \/ \E batch \in FeedBatches :
            /\ Delivers(Len(batch))
            /\ LivePoll([NoData EXCEPT !.raceControl = batch])
    \/ StartMQTT /\ UNCHANGED upstream
    \/ \E msg \in FeedMsgs :
            /\ Delivers(1)
            /\ MqttMessage("race_control", msg)
    \/ \E batch \in FeedBatches :
            /\ Delivers(Len(batch))
            /\ MqttHistorical(batch, <<>>, <<>>)

SpecRedeliver == InitRedeliver /\ [][NextRedeliver]_vars

\* the log of the store has an entry with the (timestamp, text) of msg
Stored(state, msg) ==
    \E i \in DOMAIN RcLog(state) :
        /\ RcLog(state)[i].Utc = msg.date
        /\ RcLog(state)[i].Message = msg.message

\* the step handled race-control records, all of them stored before it
Redelivery(op) ==
    /\ op.op \in {"livePoll", "mqttMessage", "mqttHistorical"}
    /\ Len(op.data.raceControl) > 0
    /\ \A i \in DOMAIN op.data.raceControl :
            Stored(op.before, op.data.raceControl[i])

RedeliveryNoOpStep == Redelivery(lastOp') => currentState' = currentState

\* C33: submitting race-control messages that are all in the log already
\* changes neither the log nor TrackStatus nor any other key of the store,
\* in the poller and in the pub/sub client.
RedeliveryNoOp == [][RedeliveryNoOpStep]_vars

\* the same for the poller alone
RedeliveryNoOpPoller == [][mode = "poller" => RedeliveryNoOpStep]_vars

\* the pub/sub client leaves the log as it was
RedeliveryKeepsLog ==
    [][Redelivery(lastOp') => RcLog(currentState') = RcLog(currentState)]_vars

(***************************************************************************)
(* The sockets of the relay.  connect (live-polling.js lines 609-667)      *)
(* opens a socket and registers four handlers that call scheduleReconnect: *)
(* the response with another status (624-628), the response's end          *)
(* (642-646), the response's error (648-652) and the request's error       *)
(* (655-659).  The request's timeout (661-666) is not modelled: no timeout *)
(* is set on the request, so the event is never emitted.  An error of the  *)
(* socket after the response has begun is reported twice by the http       *)
(* client: as the request's error and, when the socket has closed, as the  *)
(* error of the unfinished response.                                       *)
(***************************************************************************)
MaxSockets == 2

MaxAttempts == 2

\* the sockets that are connected or connecting
OpenSockets == {i \in DOMAIN sockets : sockets[i] \in {"connecting", "streaming"}}

\* the reconnect timers that have not fired
ReconnectTimers ==
    {timer \in pending : timer.kind = "timeout" /\ timer.fn = "F1DashClient.connect"}

Without(seq, i) == SubSeq(seq, 1, i - 1) \o SubSeq(seq, i + 1, Len(seq))

Sock(op) ==
    /\ lastOp' = [op |-> op, before |-> rawState, threw |-> FALSE,
                  attempts |-> reconnectAttempts]
    /\ UNCHANGED <<mode, storeVars, hubVars, adapterVars, ws, stopped, storeId, pollInterval, replayInterval,
                   clockVars, mqttClient, buffer, tokenVars, upstream, nMsgs,
                   nMerged>>

\* startF1DashClient, lines 846-868, and connect up to its callbacks
SockStart ==
    /\ mode = "relay"
    /\ request = "none"
    /\ ~stopped
    /\ request' = "connecting"
    /\ sockets' = Append(sockets, "connecting")
    /\ Sock("dashStart")
    /\ UNCHANGED <<reconnectAttempts, disconnected, pending>>

\* the response with status 200, lines 630-635
SockResponse(i) ==
    /\ sockets[i] = "connecting"
    /\ sockets' = [sockets EXCEPT ![i] = "streaming"]
    /\ request' = "streaming"
    /\ reconnectAttempts' = 0
    /\ Sock("dashConnected")
    /\ UNCHANGED <<disconnected, pending>>

\* the response with another status, lines 624-628; the server closes
SockRejected(i) ==
    /\ sockets[i] = "connecting"
    /\ sockets' = Without(sockets, i)
    /\ request' = "lost"
    /\ scheduleReconnect(pending)
    /\ Sock("dashRejected")

\* request.on("error"), lines 655-659: the socket failed; a response that
\* has begun is still to report it
SockRequestError(i) ==
    /\ sockets[i] \in {"connecting", "streaming"}
    /\ sockets' = IF sockets[i] = "streaming"
                  THEN [sockets EXCEPT ![i] = "aborted"]
                  ELSE Without(sockets, i)
    /\ request' = "lost"
    /\ scheduleReconnect(pending)
    /\ Sock("dashRequestError")

\* res.on("error"), lines 648-652: the socket closed before the response
\* was complete, after an error of the socket or because the peer closed
SockResponseError(i) ==
    /\ sockets[i] \in {"streaming", "aborted"}
    /\ sockets' = Without(sockets, i)
    /\ request' = "lost"
    /\ scheduleReconnect(pending)
    /\ Sock("dashResponseError")

\* res.on("end"), lines 642-646: the server completed the response
SockResponseEnd(i) ==
    /\ sockets[i] = "streaming"
    /\ sockets' = Without(sockets, i)
    /\ request' = "lost"
    /\ scheduleReconnect(pending)
    /\ Sock("dashResponseEnd")

\* the timer of lines 820-822 fires: connect
SockReconnect ==
    /\ \E timer \in ReconnectTimers : pending' = pending \ {timer}
    /\ request' = "connecting"
    /\ sockets' = Append(sockets, "connecting")
    /\ Sock("dashReconnect")
    /\ UNCHANGED <<reconnectAttempts, disconnected>>

\* the attempts of the run are within the bound
Retrying == reconnectAttempts < MaxAttempts

InitSockets == InitIn({"relay"})

NextSockets ==
    \/ SockStart
    \/ \E i \in DOMAIN sockets : SockResponse(i)
    \/ \E i \in DOMAIN sockets : Retrying /\ SockRejected(i)
    \/ \E i \in DOMAIN sockets : Retrying /\ SockRequestError(i)
    \/ \E i \in DOMAIN sockets : Retrying /\ SockResponseError(i)
    \/ \E i \in DOMAIN sockets : Retrying /\ SockResponseEnd(i)
    \/ Len(sockets) < MaxSockets /\ SockReconnect

SpecSockets == InitSockets /\ [][NextSockets]_vars

\* C34: the relay has at most one upstream connection open and at most one
\* reconnect timer pending at any time, whichever of the request's error,
\* the response's end and the response's error a failed connection emits.
SingleUpstream ==
    /\ Cardinality(OpenSockets) <= 1
    /\ Cardinality(ReconnectTimers) <= 1

\* no two connections are open at once
SingleConnection == Cardinality(OpenSockets) <= 1

\* a handler that calls scheduleReconnect below the limit advances the
\* attempt counter by one
AttemptsAdvanceByOne ==
    [][lastOp'.op \in {"dashRejected", "dashRequestError", "dashResponseError",
                       "dashResponseEnd"}
          => reconnectAttempts' = reconnectAttempts + 1]_vars

(***************************************************************************)
(* Start calls that overlap.  Every call of startLivePolling that finds    *)
(* isRunning false runs to its own setInterval, and `pollInterval` names   *)
(* the timer set last (live-polling.js lines 495-551).  A task of the      *)
(* event loop carries the call it belongs to.                              *)
(***************************************************************************)
MaxCalls == 2

MaxPolls == 2

CallAwait(fn, call) == [kind |-> "await", fn |-> fn, delay |-> 0, call |-> call]

CallInterval(fn, delay, call) ==
    [kind |-> "interval", fn |-> fn, delay |-> delay, call |-> call]

\* the intervals that are set and not cleared
PollTimers == {task \in pending : task.kind = "interval"}

\* the start calls that have not returned
Starting ==
    {task \in pending :
        /\ task.kind = "await"
        /\ task.fn \in {"getCurrentSession", "startLivePolling.pollData",
                        "startReplay", "getAccessToken", "ensureValidToken"}}

\* the calls whose tasks are in the event loop
Calling == {task.call : task \in {t \in pending : "call" \in DOMAIN t}}

\* startLivePolling up to its first await, lines 495-515
PollerStart(call) ==
    /\ mode = "poller"
    /\ ~isRunning
    /\ call \notin Calling
    /\ currentState' = livePollingKeys(currentState)
    /\ stopped' = FALSE
    /\ pending' = pending \cup {CallAwait("getCurrentSession", call)}
    /\ Silent("startLivePollingCall")
    /\ UNCHANGED clockVars
    /\ UNCHANGED <<replayStarted, driverBestLaps, currentSessionKey, isRunning>>

\* startLivePolling after its awaits, lines 515-545: no session, or the
\* session's key, the drivers, the backfill and the entry of the first poll
PollerSession(call, found, drivers) ==
    /\ CallAwait("getCurrentSession", call) \in pending
    /\ IF found
       THEN /\ currentSessionKey' = TRUE
            /\ isRunning' = TRUE
            /\ Published(pollFetchHistoricalData(
                             livePollingInitialState(currentState, drivers),
                             <<>>, <<>>),
                         Hub, "startLivePolling", NoData)
            /\ pending' = (pending \ {CallAwait("getCurrentSession", call)})
                              \cup {CallAwait("startLivePolling.pollData", call)}
       ELSE /\ pending' = pending \ {CallAwait("getCurrentSession", call)}
            /\ lastOp' = [op |-> "noSession", before |-> currentState,
                          threw |-> FALSE]
            /\ UNCHANGED <<currentState, sseClients, sent, nMsgs,
                           currentSessionKey, isRunning>>
    /\ UNCHANGED <<mode, conn, rawState, ws, stopped, storeId, pollInterval,
                   replayInterval, linkVars, clockVars, upstream, nMerged, replayStarted,
                   driverBestLaps, mqttIsRunning, driverData>>

\* a timer of line 548 fires: pollData up to its await, lines 98-124
PollerTick ==
    /\ \E timer \in PollTimers :
          /\ timer.fn = "pollData"
          /\ CallAwait("pollData", timer.call) \notin pending
          /\ pending' = pending \cup {CallAwait("pollData", timer.call)}
    /\ currentSessionKey
    /\ Silent("livePollTick")
    /\ UNCHANGED clockVars
    /\ UNCHANGED <<currentState, stopped, adapterVars>>

\* pollData after `await Promise.all`, lines 125-154; the poll that
\* startLivePolling awaits is followed by its setInterval, line 548
PollerPoll(data) ==
    /\ \E poll \in pending :
          /\ poll.kind = "await"
          /\ poll.fn \in {"pollData", "startLivePolling.pollData"}
          /\ "call" \in DOMAIN poll
          /\ IF poll.fn = "startLivePolling.pollData"
             THEN /\ pending' = (pending \ {poll})
                        \cup {CallInterval("pollData", LIVE_POLL_INTERVAL_MS,
                                           poll.call)}
                  /\ pollInterval' = poll.call
             ELSE /\ pending' = pending \ {poll}
                  /\ UNCHANGED pollInterval
    /\ pollDataDone(data)
    /\ UNCHANGED <<ws, stopped, storeId, replayInterval, linkVars, clockVars,
                   upstream>>

\* stopLivePolling, lines 556-568
PollerStop ==
    /\ mode = "poller"
    /\ isRunning' = FALSE
    /\ pending' = {task \in pending :
                      ~(task.kind = "interval" /\ task.call = pollInterval)}
    /\ pollInterval' = NoTimer
    /\ currentSessionKey' = FALSE
    /\ stopped' = TRUE
    /\ lastOp' = [op |-> "stopLivePolling", before |-> currentState,
                  threw |-> FALSE]
    /\ UNCHANGED <<mode, storeVars, hubVars, ws, storeId, replayInterval,
                   linkVars, clockVars, upstream, nMsgs, nMerged,
                   replayStarted, driverBestLaps, mqttIsRunning, driverData>>

InitStart == InitIn({"replay", "poller", "mqtt"})

NextStart ==
    \/ \E call \in 1..MaxCalls : nMsgs < MaxPolls /\ PollerStart(call)
    \/ \E call \in 1..MaxCalls, found \in BOOLEAN :
          PollerSession(call, found, Roster)
    \/ nMerged < MaxPolls /\ PollerTick
    \/ PollerPoll(NoData)
    \/ Starting = {} /\ PollerStop
    \/ nMsgs < MaxPolls /\ StartReplayCall
    \/ \E ok \in BOOLEAN : StartReplayResume(NoKids, ok)
    \/ nMerged < MaxPolls /\ ReplayTick
    \/ ReplayPollResume(NoData, ClockSeconds) /\ UNCHANGED upstream
    \/ Starting = {} /\ StopReplay
    \/ nMsgs < MaxPolls
          /\ StartMQTTCall([OPENF1_USERNAME |-> TRUE, OPENF1_PASSWORD |-> TRUE])
    \/ \E ok \in BOOLEAN : MqttToken(ok, TOKEN_LIFETIME)
    \/ MqttConnected
    \/ MqttReconnect
    \/ Starting = {} /\ StopMQTT
    \/ MqttEnded

SpecStart == InitStart /\ [][NextStart]_vars

\* the broker connections and the connect timers of the pub/sub client
BrokerLinks ==
    {task \in pending : task.kind = "timeout" /\ task.fn = "connect"}
        \cup IF mqttClient \in {"connecting", "connected"} THEN {mqttClient} ELSE {}

\* a stop call has just returned
Stopped == lastOp.op \in {"stopLivePolling", "stopReplay", "stopMQTT"}

\* C35: whatever start calls were made, overlapping or not, at most one poll
\* timer is active, and when a stop call made after they have returned has
\* run, no poll timer and no broker connection is left.
StartIdempotent ==
    /\ Cardinality(PollTimers) <= 1
    /\ Stopped => PollTimers = {} /\ BrokerLinks = {}

\* the same for the replay and the pub/sub client
StartIdempotentOthers == mode \in {"replay", "mqtt"} => StartIdempotent

(***************************************************************************)
(* The replay with overlapping calls.  startReplay (server.js lines        *)
(* 725-788) sets its interval at line 774 and then awaits the first        *)
(* pollAndBroadcast inside its try; the catch (783-787) resets             *)
(* replayStarted and returns false.  pollAndBroadcast throws when a        *)
(* response of the window is JSON that has no arrays (fetchJSON returns    *)
(* whatever the body parses to, line 344; `data.positions.length`, line    *)
(* 814).                                                                   *)
(***************************************************************************)
\* startReplay up to its first await, lines 725-738
ReplayStart(call) ==
    /\ mode = "replay"
    /\ ~replayStarted
    /\ call \notin Calling
    /\ replayStarted' = TRUE
    /\ stopped' = FALSE
    /\ pending' = pending \cup {CallAwait("startReplay", call)}
    /\ Silent("startReplayCall")
    /\ UNCHANGED clockVars
    /\ UNCHANGED <<currentState, driverBestLaps, currentSessionKey, isRunning>>

\* the frame of a replay step that publishes or fails
ReplayFrame ==
    UNCHANGED <<mode, conn, rawState, ws, stopped, storeId, pollInterval,
                linkVars, clockVars, upstream, nMerged, driverBestLaps,
                currentSessionKey, isRunning, mqttIsRunning, driverData>>

\* the catch of startReplay, lines 783-787
startReplayFailed(call, fn) ==
    /\ replayStarted' = FALSE
    /\ pending' = pending \ {CallAwait(fn, call)}
    /\ lastOp' = [op |-> "startReplayFailed", before |-> currentState,
                  threw |-> TRUE]
    /\ UNCHANGED <<currentState, sseClients, sent, nMsgs>>

\* startReplay after its awaits, lines 740-779: the snapshot, the interval
\* and the entry of the first pollAndBroadcast; or the catch, when the
\* session or the race start is not found
ReplaySession(call, startingGrid, ok) ==
    /\ CallAwait("startReplay", call) \in pending
    /\ IF ok
       THEN /\ LET state == buildInitialState(Roster, startingGrid) @@ currentState
               IN  Published(state,
                             broadcastFn(Hub, conn, "initial", state, nMerged),
                             "startReplay", NoData)
            /\ pending' = (pending \ {CallAwait("startReplay", call)})
                    \cup {CallInterval("pollAndBroadcast", POLL_INTERVAL_MS, call)}
                    \cup IF replayStarted
                         THEN {CallAwait("startReplay.pollAndBroadcast", call)}
                         ELSE {}
            /\ replayInterval' = call
            /\ UNCHANGED replayStarted
       ELSE /\ startReplayFailed(call, "startReplay")
            /\ UNCHANGED replayInterval
    /\ ReplayFrame

\* the first pollAndBroadcast after its await, lines 808-860, and the return
\* of startReplay; or its throw and the catch of startReplay
ReplayFirstPoll(call, data, raceSeconds, throws) ==
    /\ CallAwait("startReplay.pollAndBroadcast", call) \in pending
    /\ IF throws
       THEN /\ startReplayFailed(call, "startReplay.pollAndBroadcast")
            /\ ReplayFrame
       ELSE /\ pollAndBroadcast(data, raceSeconds)
            /\ pending' = pending \ {CallAwait("startReplay.pollAndBroadcast", call)}
            /\ UNCHANGED <<ws, stopped, storeId, pollInterval, linkVars,
                           clockVars, upstream>>
    /\ UNCHANGED replayInterval

\* a timer of line 774 fires: pollAndBroadcast up to its await, lines 791-806
ReplayTimer ==
    /\ \E timer \in PollTimers :
          /\ timer.fn = "pollAndBroadcast"
          /\ CallAwait("pollAndBroadcast", timer.call) \notin pending
          /\ pending' = pending \cup {CallAwait("pollAndBroadcast", timer.call)}
    /\ replayStarted
    /\ Silent("replayTick")
    /\ UNCHANGED clockVars
    /\ UNCHANGED <<currentState, stopped, adapterVars>>

\* pollAndBroadcast of a timer after its await, lines 808-860
ReplayTimerPoll(data, raceSeconds) ==
    /\ \E poll \in pending :
          /\ poll.kind = "await"
          /\ poll.fn = "pollAndBroadcast"
          /\ pending' = pending \ {poll}
    /\ pollAndBroadcast(data, raceSeconds)
    /\ UNCHANGED <<ws, stopped, storeId, pollInterval, replayInterval, linkVars,
                   clockVars, upstream>>

\* stopReplay, lines 864-876
ReplayStop ==
    /\ mode = "replay"
    /\ replayStarted' = FALSE
    /\ stopped' = TRUE
    /\ pending' = {task \in pending :
                      ~(task.kind = "interval" /\ task.call = replayInterval)}
    /\ replayInterval' = NoTimer
    /\ lastPollTime' = NoTime
    /\ realElapsed' = 0
    /\ lastOp' = [op |-> "stopReplay", before |-> currentState, threw |-> FALSE]
    /\ UNCHANGED <<mode, storeVars, hubVars, ws, storeId, pollInterval,
                   linkVars, inFlight, windows, upstream, nMsgs, nMerged,
                   driverBestLaps, currentSessionKey, isRunning, mqttIsRunning,
                   driverData>>

(***************************************************************************)
(* Starts that fail and starts that succeed, on an empty store, and no     *)
(* stop.                                                                   *)
(***************************************************************************)
InitFailing == InitIn({"replay", "poller", "mqtt"})

NextFailing ==
    \/ \E call \in 1..MaxCalls : nMsgs < MaxPolls /\ PollerStart(call)
    \/ \E call \in 1..MaxCalls, found \in BOOLEAN :
          PollerSession(call, found, Roster)
    \/ nMerged < MaxPolls /\ PollerTick
    \/ PollerPoll(NoData)
    \/ \E call \in 1..MaxCalls : nMsgs < MaxPolls /\ ReplayStart(call)
    \/ \E call \in 1..MaxCalls, ok \in BOOLEAN : ReplaySession(call, NoKids, ok)
    \/ \E call \in 1..MaxCalls, throws \in BOOLEAN :
          ReplayFirstPoll(call, NoData, ClockSeconds, throws)
    \/ nMerged < MaxPolls /\ ReplayTimer
    \/ ReplayTimerPoll(NoData, ClockSeconds)
    \/ \E env \in Envs : StartMQTTCall(env)
    \/ \E ok \in BOOLEAN : MqttToken(ok, TOKEN_LIFETIME)
    \/ MqttConnected
    \/ MqttReconnect

SpecFailing == InitFailing /\ [][NextFailing]_vars

\* every start call made so far has returned false
AllStartsFailed ==
    /\ Starting = {}
    /\ ~isRunning /\ ~replayStarted /\ ~mqttIsRunning
    /\ \/ lastOp.op \in {"noSession", "startReplayFailed"}
       \/ lastOp.op = "startMQTTCall" /\ lastOp.returned = "false"

\* C36: when the start of an adapter returns false, the store has the keys
\* and values it had before the call: started on the empty store, it is
\* empty as long as every start has failed.
FailedStartChangesNothing == AllStartsFailed => currentState = EmptyStore

\* the same for the pub/sub client
FailedStartChangesNothingMqtt == mode = "mqtt" => FailedStartChangesNothing

\* a start of the replay that fails before the snapshot is built
FailedStartBeforeSnapshot ==
    (mode = "replay" /\ AllStartsFailed /\ nMsgs = 0) => currentState = EmptyStore

(***************************************************************************)
(* The replay started, failed, started again and stopped; stopReplay is    *)
(* called when no start call is awaiting.                                  *)
(***************************************************************************)
MaxRestarts == 3

InitRestart == InitIn({"replay"})

NextRestart ==
    \/ \E call \in 1..MaxCalls : nMsgs < MaxRestarts /\ ReplayStart(call)
    \/ \E call \in 1..MaxCalls, ok \in BOOLEAN : ReplaySession(call, NoKids, ok)
    \/ \E call \in 1..MaxCalls, throws \in BOOLEAN :
          ReplayFirstPoll(call, NoData, ClockSeconds, throws)
    \/ nMerged < MaxPolls /\ ReplayTimer
    \/ ReplayTimerPoll(NoData, ClockSeconds)
    \/ Starting = {} /\ ReplayStop

SpecRestart == InitRestart /\ [][NextRestart]_vars

\* C37: when startReplay has returned false, isReplayRunning() is false and
\* no replay interval is scheduled, also when the first poll failed after
\* the interval was set; and when stopReplay has run after a following
\* startReplay, no interval is active.
FailedReplayLeavesNoTimer ==
    /\ lastOp.op = "startReplayFailed" => ~replayStarted /\ PollTimers = {}
    /\ lastOp.op = "stopReplay" => PollTimers = {}

\* isReplayRunning() is false after a failed start
FailedReplayNotRunning == lastOp.op = "startReplayFailed" => ~replayStarted

\* a start that fails before the interval is set adds no timer
FailedReplayAddsNoTimer ==
    [][lastOp'.op = "startReplayFailed"
          => {task \in pending' : task.kind = "interval"} = PollTimers]_vars

(***************************************************************************)
(* Runs of the replay, one after another: startReplay, polls that bring    *)
(* laps, stopReplay, and again.  The feed records the laps it has handed   *)
(* to the run that is in progress.                                         *)
(***************************************************************************)
MaxRunSteps == 5

RunLaps ==
    { Lap("44", 9, 90, 29, FALSE), Lap("44", 10, 95, 30, FALSE),
      Lap("44", 11, 200, 70, TRUE), Lap("44", NullNum, 0, 0, FALSE),
      Lap("1", 10, 96, 31, FALSE), Lap("1", 9, 0, 0, TRUE) }

InitRuns == InitIn({"replay"})

NextRuns ==
    \/ /\ nMsgs < MaxRunSteps
       /\ StartReplay(NoKids)
       /\ upstream' = [laps |-> <<>>]
    \/ \E lap \in RunLaps :
          /\ nMsgs < MaxRunSteps
          /\ ReplayPoll([NoData EXCEPT !.laps = <<lap>>], ClockSeconds)
          /\ upstream' = [laps |-> Append(upstream.laps, lap)]
    \/ StopReplay /\ UNCHANGED upstream

SpecRuns == InitRuns /\ [][NextRuns]_vars

\* the valid lap durations the run has processed for the driver
RunDurations(num) ==
    {upstream.laps[i].lap_duration : i \in
        {j \in DOMAIN upstream.laps :
            /\ upstream.laps[j].driver_number = num
            /\ upstream.laps[j].lap_duration # 0
            /\ upstream.laps[j].lap_duration < LAP_VALID_BELOW}}

Least(durations) == CHOOSE d \in durations : \A e \in durations : d <= e

BestIsRunMinimumOf(num) ==
    LET line == currentState.TimingData.Lines[num]
    IN  line.BestLapTime.Value =
            IF RunDurations(num) = {} THEN EmptyText
            ELSE formatLapTime(Least(RunDurations(num)))

\* C38: at every tick of a replay run, the BestLapTime of each driver is the
\* formatted minimum of the valid lap durations processed for that driver
\* since the run's startReplay, and empty when there is none; also in a run
\* started after another run was stopped.
BestIsRunMinimum ==
    replayStarted => \A num \in DOMAIN currentState.TimingData.Lines :
                        BestIsRunMinimumOf(num)

\* the same in the first run of the process
BestIsRunMinimumFirstRun == ~stopped => BestIsRunMinimum

\* the global lap count of the store
CurrentLap(state) == state.LapCount.CurrentLap

\* the largest of 1 and the lap counts of the timing lines
LeadLap(state) ==
    LET counts == {1} \cup {LapsOf(LinesOf(state)[num]) : num \in DOMAIN LinesOf(state)}
    IN  CHOOSE n \in counts : \A k \in counts : n >= k

LapCounterStep ==
    replayStarted' =>
        /\ CurrentLap(currentState') >= 1
        /\ CurrentLap(currentState') = LeadLap(currentState')
        /\ replayStarted => CurrentLap(currentState') >= CurrentLap(currentState)

\* C39: in every state of a replay run LapCount.CurrentLap is at least 1,
\* is not lower than in the state before, and is the largest of 1 and the
\* NumberOfLaps of the timing lines.
LapCounterInvariant == [][LapCounterStep]_vars

\* a lap of a driver behind the leader was counted: lap 9 after lap 10
LapCounterWitness ==
    /\ replayStarted
    /\ lastOp.op = "replayPoll"
    /\ lastOp.data.laps[1].lap_number = 9
    /\ LapsOf(LinesOf(lastOp.before)["1"]) = 0
    /\ LapsOf(LinesOf(currentState)["1"]) = 9
    /\ LapsOf(LinesOf(currentState)["44"]) = 10
    /\ CurrentLap(currentState) = 10

====
